---- MODULE Spec2Model ----
(***************************************************************************)
(* Product/platform state store and media store of kaymio-app (src/app.py). *)
(* The persisted JSON document, update_product_state and                    *)
(* reset_product_platform are modelled field by field; Python dicts are     *)
(* functions whose DOMAIN is the set of keys present.                       *)
(***************************************************************************)
EXTENDS Integers, Sequences, FiniteSets, TLC

VARIABLES
    file,   \* contents of STATE_FILE (Data/app_state.json)
    op,     \* the last store operation that ran: kind, product id, platform
    nops,   \* number of store operations run so far
    req,    \* the update_product_state calls in flight, one per request thread
    files,  \* the file system: absolute path of every regular file -> its bytes
    media   \* the last Media Store call: its argument and what it gave back

vars == <<file, op, nops, req, files, media>>

(***************************************************************************)
(* Bounds and input domains                                                *)
(***************************************************************************)
MaxOps == 3
MaxRequests == 2
MaxPathLen == 3
MaxStored == 2
MaxCalls == 1
MaxDurationLen == 3

ProductIds == {"sku1", "sku2"}
IdInputs == ProductIds \cup {""}

RESETTABLE_PLATFORMS == {"pinterest", "instagram", "youtube", "tiktok"}
PREVIEW_BINARY_FIELDS == {"image_data", "instagram_image_data"}
PlatformInputs == RESETTABLE_PLATFORMS \cup {"website"}

(***************************************************************************)
(* Python dict operations                                                  *)
(***************************************************************************)
EmptyDict == [k \in {} |-> ""]

DictGet(d, k, default) == IF k \in DOMAIN d THEN d[k] ELSE default

DictSet(d, k, v) == [x \in DOMAIN d \cup {k} |-> IF x = k THEN v ELSE d[x]]

DictUpdate(d, u) ==
    [k \in DOMAIN d \cup DOMAIN u |-> IF k \in DOMAIN u THEN u[k] ELSE d[k]]

DictPop(d, k) == [x \in DOMAIN d \ {k} |-> d[x]]

DictPopAll(d, ks) == [x \in DOMAIN d \ ks |-> d[x]]

\* json.loads(json.dumps(v)) on a leaf: JSON has no tuple, a tuple comes back
\* as a list; strings, booleans and null come back as they went in. The routes
\* pass JSON-native values only.
JsonLeaf(v) == IF v = "tuple_a" THEN "list_a" ELSE v

JsonSafe(d) == [k \in DOMAIN d |-> JsonLeaf(d[k])]

\* Mutant: the preview is made JSON-safe without dropping the binary fields.
SanitizePreviewKeepsBinary(preview) == JsonSafe(preview)

SanitizePreview(preview) ==
    JsonSafe([k \in DOMAIN preview \ PREVIEW_BINARY_FIELDS |-> preview[k]])

(***************************************************************************)
(* The persisted document                                                  *)
(***************************************************************************)
EmptyAppState == [products |-> EmptyDict, last_product_id |-> ""]

\* What STATE_FILE can hold: nothing (no file yet), a JSON object, the empty
\* text an open-for-write leaves before the write lands, or the mix of two
\* overlapping writes, which no longer decodes.
Absent == [kind |-> "absent"]
Torn == [kind |-> "torn"]
Corrupt == [kind |-> "corrupt"]
Object(doc) == [kind |-> "object", data |-> doc]

\* What else the path can hold: a file open() refuses (OSError), bytes that
\* are not UTF-8, and JSON text whose top level is not an object.
Unreadable == [kind |-> "unreadable"]
Undecodable == [kind |-> "undecodable"]
NonObject == [kind |-> "non_object"]

\* dict.setdefault (lines 121-122).
SetDefault(d, k, v) == IF k \in DOMAIN d THEN d ELSE DictSet(d, k, v)

\* Line 117 catches json.JSONDecodeError and OSError; the UnicodeDecodeError
\* that handle.read() raises on undecodable bytes is neither.
Raises(f) == f.kind = "undecodable"

\* The value load_app_state returns when it returns.
LoadAppState(f) ==
    IF f.kind = "object"
    THEN SetDefault(SetDefault(f.data, "products", EmptyDict), "last_product_id", "")
    ELSE EmptyAppState

LoadResult(f) ==
    IF Raises(f)
    THEN [outcome |-> "raised", error |-> "UnicodeDecodeError"]
    ELSE [outcome |-> "returned", state |-> LoadAppState(f)]

SaveAppState(doc) == Object(doc)

NewEntry == [platforms |-> EmptyDict, assets |-> EmptyDict, results |-> EmptyDict]

GetProductState(f, pid) == DictGet(LoadAppState(f).products, pid, EmptyDict)

(***************************************************************************)
(* update_product_state                                                    *)
(***************************************************************************)
\* `if assets:` / `if results:` / `if platforms:`: None and {} are both falsy.
Truthy(payload, field) == field \in DOMAIN payload /\ DOMAIN payload[field] # {}

\* Mutant: the snapshot of a named platform is replaced, not merged.
MergePlatformsReplaces(stored, platforms) ==
    [name \in DOMAIN stored \cup DOMAIN platforms |->
        IF name \in DOMAIN platforms THEN JsonSafe(platforms[name]) ELSE stored[name]]

MergePlatforms(stored, platforms) ==
    [name \in DOMAIN stored \cup DOMAIN platforms |->
        IF name \in DOMAIN platforms
        THEN DictUpdate(DictGet(stored, name, EmptyDict), JsonSafe(platforms[name]))
        ELSE stored[name]]

\* Mutant: form_values and preview are merged into the stored value.
UpdateEntryMergesForm(entry, payload) ==
    LET e1 == IF "form_values" \in DOMAIN payload
              THEN DictSet(entry, "form_values",
                     DictUpdate(DictGet(entry, "form_values", EmptyDict),
                                JsonSafe(payload["form_values"])))
              ELSE entry
        e2 == IF "preview" \in DOMAIN payload
              THEN DictSet(e1, "preview",
                     DictUpdate(DictGet(e1, "preview", EmptyDict),
                                SanitizePreview(payload["preview"])))
              ELSE e1
        e3 == IF Truthy(payload, "assets")
              THEN DictSet(e2, "assets",
                     DictUpdate(DictGet(e2, "assets", EmptyDict), JsonSafe(payload["assets"])))
              ELSE e2
        e4 == IF Truthy(payload, "results")
              THEN DictSet(e3, "results",
                     DictUpdate(DictGet(e3, "results", EmptyDict), JsonSafe(payload["results"])))
              ELSE e3
        e5 == IF Truthy(payload, "platforms")
              THEN DictSet(e4, "platforms",
                     MergePlatforms(DictGet(e4, "platforms", EmptyDict), payload["platforms"]))
              ELSE e4
    IN  e5

\* Mutant: assets and results are replaced by the update.
UpdateEntryReplacesAssets(entry, payload) ==
    LET e1 == IF "form_values" \in DOMAIN payload
              THEN DictSet(entry, "form_values", JsonSafe(payload["form_values"]))
              ELSE entry
        e2 == IF "preview" \in DOMAIN payload
              THEN DictSet(e1, "preview", SanitizePreview(payload["preview"]))
              ELSE e1
        e3 == IF Truthy(payload, "assets")
              THEN DictSet(e2, "assets", JsonSafe(payload["assets"]))
              ELSE e2
        e4 == IF Truthy(payload, "results")
              THEN DictSet(e3, "results", JsonSafe(payload["results"]))
              ELSE e3
        e5 == IF Truthy(payload, "platforms")
              THEN DictSet(e4, "platforms",
                     MergePlatforms(DictGet(e4, "platforms", EmptyDict), payload["platforms"]))
              ELSE e4
    IN  e5

UpdateEntry(entry, payload) ==
    LET e1 == IF "form_values" \in DOMAIN payload
              THEN DictSet(entry, "form_values", JsonSafe(payload["form_values"]))
              ELSE entry
        e2 == IF "preview" \in DOMAIN payload
              THEN DictSet(e1, "preview", SanitizePreview(payload["preview"]))
              ELSE e1
        e3 == IF Truthy(payload, "assets")
              THEN DictSet(e2, "assets",
                     DictUpdate(DictGet(e2, "assets", EmptyDict), JsonSafe(payload["assets"])))
              ELSE e2
        e4 == IF Truthy(payload, "results")
              THEN DictSet(e3, "results",
                     DictUpdate(DictGet(e3, "results", EmptyDict), JsonSafe(payload["results"])))
              ELSE e3
        e5 == IF Truthy(payload, "platforms")
              THEN DictSet(e4, "platforms",
                     MergePlatforms(DictGet(e4, "platforms", EmptyDict), payload["platforms"]))
              ELSE e4
    IN  e5

\* Mutant: the pointer moves only when the call creates the entry.
UpdateDocKeepsPointer(doc, pid, payload) ==
    LET entry == DictGet(doc.products, pid, NewEntry)
    IN  [products |-> DictSet(doc.products, pid, UpdateEntry(entry, payload)),
         last_product_id |-> IF pid \in DOMAIN doc.products
                             THEN doc.last_product_id ELSE pid]

\* Mutant: a missing entry is created empty and the payload is merged only
\* into an entry that already exists.
UpdateDocCreatesEmpty(doc, pid, payload) ==
    [products |-> DictSet(doc.products, pid,
                    IF pid \in DOMAIN doc.products
                    THEN UpdateEntry(doc.products[pid], payload)
                    ELSE NewEntry),
     last_product_id |-> pid]

\* Lines 177-200: the document that update_product_state hands to save_app_state.
UpdateDoc(doc, pid, payload) ==
    LET entry == DictGet(doc.products, pid, NewEntry)
    IN  [products |-> DictSet(doc.products, pid, UpdateEntry(entry, payload)),
         last_product_id |-> pid]

\* The whole call on the file: an empty product id returns before the load.
UpdateFile(f, pid, payload) ==
    IF pid = "" \/ Raises(f)
    THEN f
    ELSE SaveAppState(UpdateDoc(LoadAppState(f), pid, payload))

(***************************************************************************)
(* reset_product_platform                                                  *)
(***************************************************************************)
INSTAGRAM_ALIASES == {"instagram_feed", "instagram_story"}
INSTAGRAM_PREVIEW_FIELDS ==
    {"instagram_caption", "instagram_hashtags", "instagram_hashtags_payload",
     "instagram_image_path", "instagram_image_url", "instagram_image_public_url",
     "instagram_image_data"}
YOUTUBE_PREVIEW_FIELDS ==
    {"youtube_title", "youtube_description", "youtube_keywords", "youtube_keywords_payload"}
TIKTOK_PREVIEW_FIELDS == {"tiktok_caption", "tiktok_hashtags", "tiktok_hashtags_payload"}

\* Mutant: the reset assigns a fresh preview instead of popping x's fields.
ResetEntryDropsPreview(entry, platform) ==
    LET platforms == DictGet(entry, "platforms", EmptyDict)
        results == DictGet(entry, "results", EmptyDict)
        assets == DictGet(entry, "assets", EmptyDict)
    IN  DictUpdate(entry,
            [platforms |-> DictPopAll(platforms,
                              IF platform = "instagram" THEN INSTAGRAM_ALIASES ELSE {platform}),
             assets |-> IF platform = "instagram"
                        THEN DictPop(assets, "instagram_image_path") ELSE assets,
             preview |-> EmptyDict,
             results |-> IF platform = "instagram" THEN results ELSE DictPop(results, platform)])

\* Mutant: the instagram branch forgets assets.pop("instagram_image_path").
ResetEntryKeepsInstagramAsset(entry, platform) ==
    LET platforms == DictGet(entry, "platforms", EmptyDict)
        results == DictGet(entry, "results", EmptyDict)
        assets == DictGet(entry, "assets", EmptyDict)
        preview == DictGet(entry, "preview", EmptyDict)
    IN  DictUpdate(entry,
            [platforms |-> DictPopAll(platforms,
                              IF platform = "instagram" THEN INSTAGRAM_ALIASES ELSE {platform}),
             assets |-> assets,
             preview |-> DictPopAll(preview,
                              CASE platform = "instagram" -> INSTAGRAM_PREVIEW_FIELDS
                                [] platform = "youtube" -> YOUTUBE_PREVIEW_FIELDS
                                [] platform = "tiktok" -> TIKTOK_PREVIEW_FIELDS
                                [] OTHER -> {}),
             results |-> IF platform = "instagram" THEN results ELSE DictPop(results, platform)])

\* Lines 289-332: the entry after a reset of instagram, youtube or tiktok.
ResetEntry(entry, platform) ==
    LET platforms == DictGet(entry, "platforms", EmptyDict)
        assets == DictGet(entry, "assets", EmptyDict)
        preview == DictGet(entry, "preview", EmptyDict)
        results == DictGet(entry, "results", EmptyDict)
        cleared ==
            IF platform = "instagram"
            THEN [platforms |-> DictPopAll(platforms, INSTAGRAM_ALIASES),
                  assets |-> DictPop(assets, "instagram_image_path"),
                  preview |-> DictPopAll(preview, INSTAGRAM_PREVIEW_FIELDS),
                  results |-> results]
            ELSE IF platform = "youtube"
            THEN [platforms |-> DictPop(platforms, "youtube"),
                  assets |-> assets,
                  preview |-> DictPopAll(preview, YOUTUBE_PREVIEW_FIELDS),
                  results |-> DictPop(results, "youtube")]
            ELSE IF platform = "tiktok"
            THEN [platforms |-> DictPop(platforms, "tiktok"),
                  assets |-> assets,
                  preview |-> DictPopAll(preview, TIKTOK_PREVIEW_FIELDS),
                  results |-> DictPop(results, "tiktok")]
            ELSE [platforms |-> platforms, assets |-> assets,
                  preview |-> preview, results |-> results]
    IN  DictUpdate(entry, cleared)

\* Mutant: the pinterest branch forgets to clear last_product_id.
ResetPinterestDocKeepsPointer(doc, pid) ==
    [products |-> DictPop(doc.products, pid), last_product_id |-> doc.last_product_id]

\* Mutant: the pinterest branch clears the pointer but leaves the entry stored.
ResetPinterestDocKeepsEntry(doc, pid) ==
    [products |-> doc.products,
     last_product_id |-> IF doc.last_product_id = pid THEN "" ELSE doc.last_product_id]

\* Mutant: the pinterest branch empties the whole products map.
ResetPinterestDocClearsAll(doc, pid) ==
    [products |-> EmptyDict,
     last_product_id |-> IF doc.last_product_id = pid THEN "" ELSE doc.last_product_id]

\* Lines 282-287: the pinterest branch drops the entry and the pointer to it.
ResetPinterestDoc(doc, pid) ==
    [products |-> DictPop(doc.products, pid),
     last_product_id |-> IF doc.last_product_id = pid THEN "" ELSE doc.last_product_id]

\* Mutant: a product without an entry is reset as if its entry were new.
ResetFileCreatesEntry(f, pid, platform) ==
    IF pid = "" \/ platform \notin RESETTABLE_PLATFORMS \/ Raises(f)
    THEN f
    ELSE LET doc == LoadAppState(f)
             entry == DictGet(doc.products, pid, NewEntry)
         IN  IF platform = "pinterest"
             THEN SaveAppState(ResetPinterestDoc(doc, pid))
             ELSE SaveAppState(
                    [doc EXCEPT !.products =
                        DictSet(doc.products, pid, ResetEntry(entry, platform))])

ResetFile(f, pid, platform) ==
    IF pid = "" \/ platform \notin RESETTABLE_PLATFORMS \/ Raises(f)
    THEN f
    ELSE LET doc == LoadAppState(f)
         IN  IF pid \notin DOMAIN doc.products
             THEN f
             ELSE IF platform = "pinterest"
             THEN SaveAppState(ResetPinterestDoc(doc, pid))
             ELSE SaveAppState(
                    [doc EXCEPT !.products =
                        DictSet(doc.products, pid, ResetEntry(doc.products[pid], platform))])

(***************************************************************************)
(* Media Store: paths                                                      *)
(***************************************************************************)
\* An absolute path is the sequence of its components; a relative_path
\* argument is its components and whether the text starts with "/".
STORAGE_ROOT == <<"app", "template_images">>
ORIGINALS_DIR == STORAGE_ROOT \o <<"originals">>
GENERATED_DIR == STORAGE_ROOT \o <<"generated">>
VIDEOS_DIR == STORAGE_ROOT \o <<"videos">>
STATE_DIR == <<"app", "Data">>

Rel(parts) == [absolute |-> FALSE, parts |-> parts]

\* Path.__truediv__: an absolute right operand replaces the left one.
Join(base, rel) == IF rel.absolute THEN rel.parts ELSE base \o rel.parts

\* Path.resolve(): ".." drops the component before it, and stays at "/".
RECURSIVE Normalize(_, _)
Normalize(stack, parts) ==
    IF parts = <<>> THEN stack
    ELSE IF Head(parts) = ".."
    THEN Normalize(IF stack = <<>> THEN <<>> ELSE SubSeq(stack, 1, Len(stack) - 1),
                   Tail(parts))
    ELSE Normalize(Append(stack, Head(parts)), Tail(parts))

Resolve(path) == Normalize(<<>>, path)

\* The text of a component, in units no finer than the model needs: the
\* sibling directory's name is the storage root's name followed by "_old".
Spelling(name) ==
    IF name = "template_images_old" THEN <<"template_images", "_old">> ELSE <<name>>

\* str(path): "/" before every component.
RECURSIVE PathStr(_)
PathStr(path) ==
    IF path = <<>> THEN <<>>
    ELSE <<"/">> \o Spelling(Head(path)) \o PathStr(Tail(path))

\* str.startswith
StartsWith(text, prefix) ==
    /\ Len(prefix) <= Len(text)
    /\ SubSeq(text, 1, Len(prefix)) = prefix

\* Lines 353 and 376: str(target).startswith(str(storage_root)).
Contained(target) == StartsWith(PathStr(target), PathStr(Resolve(STORAGE_ROOT)))

(***************************************************************************)
(* Media Store: the file system                                            *)
(***************************************************************************)
\* Directories made at import (lines 39-42) and the ones of the machine.
MadeDirs ==
    {<<>>, <<"app">>, STORAGE_ROOT, ORIGINALS_DIR, GENERATED_DIR, VIDEOS_DIR, STATE_DIR}

IsPrefix(a, b) == Len(a) <= Len(b) /\ SubSeq(b, 1, Len(a)) = a

IsDir(fs, path) ==
    \/ path \in MadeDirs
    \/ \E f \in DOMAIN fs : IsPrefix(path, f) /\ path # f

\* Path.exists()
Exists(fs, path) == path \in DOMAIN fs \/ IsDir(fs, path)

\* Files the machine holds outside the storage root.
OutsideFiles ==
    (<<"etc", "secret">> :> "x1") @@ (<<"app", "template_images_old", "secret">> :> "x2")

\* Lines 371-381.
LoadStoredMedia(fs, rel) ==
    IF rel.parts = <<>> /\ ~rel.absolute
    THEN [outcome |-> "not_found", target |-> <<>>, data |-> ""]
    ELSE LET target == Resolve(Join(STORAGE_ROOT, rel))
         IN  IF ~Contained(target)
             THEN [outcome |-> "invalid_path", target |-> target, data |-> ""]
             ELSE IF ~Exists(fs, target)
             THEN [outcome |-> "not_found", target |-> target, data |-> ""]
             ELSE IF target \notin DOMAIN fs
             THEN [outcome |-> "is_directory", target |-> target, data |-> ""]
             ELSE [outcome |-> "bytes", target |-> target, data |-> fs[target]]

\* Lines 348-355.
ResolveStoragePath(fs, rel) ==
    IF rel.parts = <<>> /\ ~rel.absolute
    THEN [outcome |-> "none", target |-> <<>>, data |-> ""]
    ELSE LET target == Resolve(Join(STORAGE_ROOT, rel))
         IN  IF ~Contained(target) \/ ~Exists(fs, target)
             THEN [outcome |-> "none", target |-> target, data |-> ""]
             ELSE [outcome |-> "path", target |-> target, data |-> ""]

\* f"{uuid4().hex}{suffix}"
FileName(uuid, suffix) ==
    CASE uuid = "u1" /\ suffix = ".png" -> "u1.png"
      [] uuid = "u1" /\ suffix = ".jpg" -> "u1.jpg"
      [] uuid = "u1" /\ suffix = ".mp4" -> "u1.mp4"
      [] uuid = "u2" /\ suffix = ".png" -> "u2.png"
      [] uuid = "u2" /\ suffix = ".jpg" -> "u2.jpg"
      [] uuid = "u2" /\ suffix = ".mp4" -> "u2.mp4"
      [] uuid = "u3" /\ suffix = ".png" -> "u3.png"
      [] uuid = "u3" /\ suffix = ".jpg" -> "u3.jpg"
      [] uuid = "u3" /\ suffix = ".mp4" -> "u3.mp4"
      [] uuid = "u4" /\ suffix = ".png" -> "u4.png"
      [] uuid = "u4" /\ suffix = ".jpg" -> "u4.jpg"
      [] uuid = "u4" /\ suffix = ".mp4" -> "u4.mp4"
      [] uuid = "u5" /\ suffix = ".png" -> "u5.png"
      [] uuid = "u5" /\ suffix = ".jpg" -> "u5.jpg"
      [] uuid = "u5" /\ suffix = ".mp4" -> "u5.mp4"
      [] uuid = "u6" /\ suffix = ".png" -> "u6.png"
      [] uuid = "u6" /\ suffix = ".jpg" -> "u6.jpg"
      [] OTHER -> "u6.mp4"

\* destination.name in place of destination.relative_to(STORAGE_ROOT).
RelativeToName(destination) ==
    Rel(<<destination[Len(destination)]>>)

\* destination.relative_to(STORAGE_ROOT).as_posix() (line 345).
RelativeTo(destination) ==
    Rel(SubSeq(destination, Len(STORAGE_ROOT) + 1, Len(destination)))

\* The pool of uuid4 values, in the order they are handed out.
UuidOrder == <<"u1", "u2", "u3", "u4", "u5", "u6">>
Uuids == {UuidOrder[i] : i \in 1..Len(UuidOrder)}
Suffixes == {".png", ".jpg", ".mp4"}
Bytes == {"b1", "b2"}

\* uuid4 gives a name no stored file has. Names differ in nothing else, so
\* the first name of the pool that no file uses stands for it.
UsedUuids(fs) ==
    LET names == {f[Len(f)] : f \in DOMAIN fs}
    IN  {u \in Uuids : \E sfx \in Suffixes : FileName(u, sfx) \in names}

Uuid4(fs) ==
    LET used == UsedUuids(fs)
    IN  UuidOrder[CHOOSE i \in 1..Len(UuidOrder) :
                     /\ UuidOrder[i] \notin used
                     /\ \A j \in 1..(i - 1) : UuidOrder[j] \in used]

\* Path(original_filename).suffix.lower() or ".png"
OriginalSuffix(filename_suffix) ==
    IF filename_suffix = "" THEN ".png"
    ELSE IF filename_suffix = ".JPG" THEN ".jpg"
    ELSE filename_suffix

\* Lines 339-345: the files afterwards, the destination written and the
\* relative path returned.
StoreImage(fs, bytes_data, directory, suffix) ==
    LET destination == Append(directory, FileName(Uuid4(fs), suffix))
    IN  [files |-> (destination :> bytes_data) @@ fs,
         target |-> destination,
         path |-> RelativeTo(destination)]

\* The calls of _store_image: save_original_image, save_generated_image,
\* save_generated_video (lines 358-368).
StoreCalls ==
    {[directory |-> ORIGINALS_DIR, suffix |-> OriginalSuffix(fs)] : fs \in {"", ".JPG", ".png"}}
    \cup {[directory |-> GENERATED_DIR, suffix |-> ".png"],
          [directory |-> VIDEOS_DIR, suffix |-> ".mp4"]}

\* The files stored under the storage root, as relative paths.
StoredPaths(fs) ==
    {Rel(SubSeq(f, Len(STORAGE_ROOT) + 1, Len(f))) :
        f \in {g \in DOMAIN fs : IsPrefix(STORAGE_ROOT, g)}}

\* The relative_path values requests send: any text of up to MaxPathLen
\* components, with or without a leading "/".
PathParts == {"..", "etc", "secret", "template_images_old"}

RECURSIVE SeqsUpTo(_, _)
SeqsUpTo(S, n) ==
    IF n = 0 THEN {<<>>}
    ELSE LET shorter == SeqsUpTo(S, n - 1)
         IN  shorter \cup {Append(q, x) : q \in shorter, x \in S}

RelInputs ==
    {[absolute |-> a, parts |-> q] : a \in BOOLEAN, q \in SeqsUpTo(PathParts, MaxPathLen)}

(***************************************************************************)
(* Inputs: the payloads the routes hand to update_product_state            *)
(***************************************************************************)
PayloadFields == {"form_values", "preview", "platforms", "assets", "results"}

\* Three variants of every field: what a generation route passes, what a
\* publishing route passes, and the empty dict.
PreviewGenerated ==
    [title |-> "a", image_data |-> "img", generated_image_path |-> "g1",
     instagram_caption |-> "a", instagram_hashtags |-> "a",
     instagram_hashtags_payload |-> "a", instagram_image_path |-> "g1",
     instagram_image_url |-> "a", instagram_image_public_url |-> "a",
     instagram_image_data |-> "img",
     youtube_title |-> "a", youtube_description |-> "a", youtube_keywords |-> "a",
     youtube_keywords_payload |-> "a",
     youtube_boost_prompt |-> "a",
     tiktok_caption |-> "a", tiktok_hashtags |-> "a", tiktok_hashtags_payload |-> "a"]

PreviewRebuilt ==
    [title |-> "b", image_data |-> "img", generated_image_path |-> "g1",
     instagram_caption |-> "b", instagram_image_data |-> "",
     youtube_title |-> "b", tiktok_caption |-> "b", video_url |-> "b"]

FieldInput(field, variant) ==
    CASE field = "form_values" ->
            IF variant = "generated" THEN [title |-> "a"]
            ELSE IF variant = "published" THEN [title |-> "b", price |-> "a"]
            ELSE EmptyDict
      [] field = "preview" ->
            IF variant = "generated" THEN PreviewGenerated
            ELSE IF variant = "published" THEN PreviewRebuilt
            ELSE EmptyDict
      [] field = "platforms" ->
            IF variant = "generated"
            THEN [tiktok |-> [status |-> "pending", video_path |-> "a"],
                  instagram_feed |-> [status |-> "pending", image_path |-> "g1"],
                  pinterest |-> [status |-> "pending"]]
            ELSE IF variant = "published"
            THEN [tiktok |-> [status |-> "published"],
                  youtube |-> [status |-> "published", video_id |-> "b"],
                  instagram_story |-> [status |-> "published"]]
            ELSE EmptyDict
      [] field = "assets" ->
            IF variant = "generated"
            THEN [original_image_path |-> "o1", generated_image_path |-> "g1",
                  instagram_image_path |-> "i1"]
            ELSE IF variant = "published"
            THEN [instagram_image_path |-> "i2", generated_video_path |-> "v1"]
            ELSE EmptyDict
      [] OTHER ->
            IF variant = "generated" THEN [pinterest |-> "r1", tiktok |-> "r1"]
            ELSE IF variant = "published" THEN [youtube |-> "r2", tiktok |-> "r2", website |-> "r2"]
            ELSE EmptyDict

Variants == {"generated", "published", "empty"}

\* The five blocks of update_product_state are independent of each other, so the
\* calls drawn give one field at a time, all five at once, or none.
Payloads ==
    {[field \in fields |-> FieldInput(field, variant)] :
        fields \in {fs \in SUBSET PayloadFields : Cardinality(fs) \in {0, 1, 5}},
        variant \in Variants}

(***************************************************************************)
(* Serial execution: one request at a time                                 *)
(***************************************************************************)
NoOp == [kind |-> "none", pid |-> "", platform |-> "", payload |-> EmptyDict,
         changed |-> FALSE, repeat |-> FALSE]

\* The record of a call: what was called, whether it rewrote the file to a
\* different value, and whether it repeats the call before it.
Called(kind, pid, platform, payload, changed) ==
    [kind |-> kind, pid |-> pid, platform |-> platform, payload |-> payload,
     changed |-> changed,
     repeat |-> /\ op.kind = kind
                /\ op.pid = pid
                /\ op.platform = platform
                /\ op.payload = payload]

Requests == {"r1", "r2"}

\* No Media Store call made yet; `request` is the relative_path a request
\* sent in a form field.
NoCall(request) ==
    [request |-> request, call |-> "none", path |-> Rel(<<>>), outcome |-> "none",
     target |-> <<>>, data |-> "", stored |-> EmptyDict]

Idle == [pc |-> "idle", pid |-> "", payload |-> EmptyDict, doc |-> EmptyAppState]

Init ==
    /\ file = Absent
    /\ op = NoOp
    /\ nops = 0
    /\ req = [r \in Requests |-> Idle]
    /\ files = OutsideFiles
    /\ media = NoCall(Rel(<<>>))

update_product_state(pid, payload) ==
    /\ nops < MaxOps
    /\ file' = UpdateFile(file, pid, payload)
    /\ op' = Called("update", pid, "", payload, file' # file)
    /\ nops' = nops + 1
    /\ UNCHANGED <<req, files, media>>

reset_product_platform(pid, platform) ==
    /\ nops < MaxOps
    /\ file' = ResetFile(file, pid, platform)
    /\ op' = Called("reset", pid, platform, EmptyDict, file' # file)
    /\ nops' = nops + 1
    /\ UNCHANGED <<req, files, media>>

Next ==
    \/ \E pid \in IdInputs, payload \in Payloads : update_product_state(pid, payload)
    \/ \E pid \in IdInputs, platform \in PlatformInputs : reset_product_platform(pid, platform)

Spec == Init /\ [][Next]_vars

(***************************************************************************)
(* Concurrent execution: update_product_state on two request threads.      *)
(* The call reads the file (line 177), merges in memory (lines 178-200)     *)
(* and rewrites the file (line 201, Path.write_text: the open truncates,    *)
(* the write follows). Nothing orders these steps between threads.          *)
(***************************************************************************)
RacePayloads ==
    {[f \in {field} |-> FieldInput(field, variant)] :
        field \in {"form_values", "platforms", "assets"},
        variant \in {"generated", "published"}}

\* Mutant: the save merges into the file as it is at the time of the write.
StateToSaveReloaded(r) == UpdateDoc(LoadAppState(file), req[r].pid, req[r].payload)

\* Lines 178-200: the `state` a request hands to save_app_state, built from
\* the snapshot it loaded at line 177.
StateToSave(r) == UpdateDoc(req[r].doc, req[r].pid, req[r].payload)

\* Line 175-177: the guard on the product id, then load_app_state().
UpdateLoad(r, pid, payload) ==
    /\ req[r].pc = "idle"
    /\ nops < MaxRequests
    /\ req' = [req EXCEPT ![r] =
                  IF pid = ""
                  THEN [pc |-> "done", pid |-> pid, payload |-> payload,
                        doc |-> EmptyAppState]
                  ELSE [pc |-> "loaded", pid |-> pid, payload |-> payload,
                        doc |-> LoadAppState(file)]]
    /\ nops' = nops + 1
    /\ UNCHANGED <<file, op, files, media>>

\* Line 127, first half: opening the file for writing empties it.
UpdateTruncate(r) ==
    /\ req[r].pc = "loaded"
    /\ file' = Torn
    /\ req' = [req EXCEPT ![r].pc = "writing"]
    /\ UNCHANGED <<op, nops, files, media>>

\* Line 127, second half: the text lands at offset 0. On a file another
\* thread wrote since this one's truncate, the result is this thread's text
\* or, when it is the shorter one, a text that no longer decodes.
UpdateWrite(r) ==
    /\ req[r].pc = "writing"
    /\ \/ file' = SaveAppState(StateToSave(r))
       \/ file.kind # "torn" /\ file' = Corrupt
    /\ req' = [req EXCEPT ![r].pc = "done"]
    /\ UNCHANGED <<op, nops, files, media>>

\* The request returns; its thread takes the next request.
UpdateReturn(r) ==
    /\ req[r].pc = "done"
    /\ nops < MaxRequests
    /\ req' = [req EXCEPT ![r] = Idle]
    /\ UNCHANGED <<file, op, nops, files, media>>

NextConc ==
    \/ \E r \in Requests, pid \in IdInputs, payload \in RacePayloads :
          UpdateLoad(r, pid, payload)
    \/ \E r \in Requests : UpdateTruncate(r)
    \/ \E r \in Requests : UpdateWrite(r)
    \/ \E r \in Requests : UpdateReturn(r)

SpecConc == Init /\ [][NextConc]_vars

(***************************************************************************)
(* Media Store calls                                                       *)
(***************************************************************************)
MediaCall(call, rel, result) ==
    [request |-> media.request, call |-> call, path |-> rel,
     outcome |-> result.outcome, target |-> result.target, data |-> result.data,
     stored |-> media.stored]

\* The paths a call is made with: the one the request sent, or one an
\* earlier store returned.
CallPaths == {media.request} \cup StoredPaths(files) \cup DOMAIN media.stored

load_stored_media(rel) ==
    /\ media' = MediaCall("load", rel, LoadStoredMedia(files, rel))
    /\ UNCHANGED <<file, op, nops, req, files>>

resolve_storage_path(rel) ==
    /\ media' = MediaCall("resolve", rel, ResolveStoragePath(files, rel))
    /\ UNCHANGED <<file, op, nops, req, files>>

\* Lines 339-345. media.stored records, for every path a store returned, the
\* bytes it was given.
store_image(bytes_data, directory, suffix) ==
    /\ Cardinality(StoredPaths(files)) < MaxStored
    /\ UsedUuids(files) # Uuids
    /\ LET stored == StoreImage(files, bytes_data, directory, suffix)
       IN  /\ files' = stored.files
           /\ media' = [MediaCall("store", stored.path,
                            [outcome |-> "stored", target |-> stored.target,
                             data |-> bytes_data])
                        EXCEPT !.stored = DictSet(media.stored, stored.path, bytes_data)]
    /\ UNCHANGED <<file, op, nops, req>>

InitMedia ==
    /\ file = Absent
    /\ op = NoOp
    /\ nops = 0
    /\ req = [r \in Requests |-> Idle]
    /\ files = OutsideFiles
    /\ \E request \in RelInputs : media = NoCall(request)

NextMedia ==
    \/ \E rel \in CallPaths : load_stored_media(rel)
    \/ \E rel \in CallPaths : resolve_storage_path(rel)
    \/ \E b \in Bytes, c \in StoreCalls : store_image(b, c.directory, c.suffix)

SpecMedia == InitMedia /\ [][NextMedia]_vars

\* The Media Store used through the paths its own stores returned only.
SpecStore == Init /\ [][NextMedia]_vars

(***************************************************************************)
(* load_app_state on whatever the state file holds                         *)
(***************************************************************************)
\* Entries and documents earlier runs may have saved.
DiskEntries == {UpdateEntry(NewEntry, payload) : payload \in Payloads}

DiskDocs ==
    {[products |-> products, last_product_id |-> last] :
        products \in UNION {[ids -> DiskEntries] : ids \in SUBSET ProductIds},
        last \in IdInputs}

\* A JSON object with any of its top-level keys missing.
Restrict(d, keys) == [k \in keys |-> d[k]]

DiskContents ==
    {Absent, Unreadable, Undecodable, Torn, Corrupt, NonObject}
    \cup {Object(Restrict(doc, keys)) :
            doc \in DiskDocs, keys \in SUBSET {"products", "last_product_id"}}

InitLoad ==
    /\ file \in DiskContents
    /\ op = NoOp
    /\ nops = 0
    /\ req = [r \in Requests |-> Idle]
    /\ files = OutsideFiles
    /\ media = NoCall(Rel(<<>>))

load_app_state ==
    /\ op.kind = "none"
    /\ op' = [kind |-> "load", result |-> LoadResult(file)]
    /\ UNCHANGED <<file, nops, req, files, media>>

NextLoad == load_app_state

SpecLoad == InitLoad /\ [][NextLoad]_vars

(***************************************************************************)
(* Routes: what the generators return                                      *)
(***************************************************************************)
\* str.lower() on the texts that occur.
Lower(text) ==
    CASE text = "Unknown Concept" -> "unknown concept"
      [] text = "Story" -> "story"
      [] text = "YouTube" -> "youtube"
      [] OTHER -> text

\* What the OpenAI call behind a generator gives back: text, the placeholder
\* "Unknown Concept", JSON of some shape, text that is not JSON, or nothing
\* (missing key, API error, empty answer).
TextOutcomes == {"text", "placeholder", "none"}
CaptionOutcomes == {"text", "none"}
JsonOutcomes == {"list", "object", "string", "scalar", "not_json", "none"}
StepOutcomes == {"ok", "fails"}

Returned(value) == [raised |-> "", value |-> value]
Raised(error) == [raised |-> error, value |-> ""]

\* openai_helper.generate_text (lines 34-76): every failure returns the text
\* it was given.
GenerateText(outcome, text) ==
    CASE outcome = "text" -> "generated"
      [] outcome = "placeholder" -> "Unknown Concept"
      [] OTHER -> text

\* `for tag in json.loads(text)`: a list yields its items, an object its
\* keys, a string its characters; a number, boolean or null is not iterable.
Iterate(outcome) ==
    CASE outcome = "list" -> Returned("items")
      [] outcome = "object" -> Returned("keys")
      [] outcome = "string" -> Returned("characters")
      [] OTHER -> Raised("TypeError")

\* generate_tags_for_product_for_pintrest (lines 160-196): except Exception.
GenerateTags(outcome, fallback) ==
    IF outcome \in {"none", "not_json"} \/ Iterate(outcome).raised # ""
    THEN Returned(fallback)
    ELSE Iterate(outcome)

\* generate_caption_for_instagram / _tiktok (lines 199-217, 247-261).
GenerateCaption(outcome, fallback) ==
    IF outcome = "text" THEN "generated" ELSE fallback

\* generate_hashtags_for_instagram / _tiktok (lines 220-244, 264-287): only
\* json.JSONDecodeError is caught.
GenerateHashtags(outcome, fallback) ==
    IF outcome \in {"none", "not_json"} THEN Returned(fallback) ELSE Iterate(outcome)

\* generate_youtube_metadata (lines 290-331): data.get on what json.loads
\* returned; only an object has get.
GenerateYoutubeMetadata(outcome, fallback) ==
    CASE outcome \in {"none", "not_json"} -> Returned(fallback)
      [] outcome = "object" ->
            Returned([title |-> "generated", description |-> "generated",
                      keywords |-> "items"])
      [] OTHER -> Raised("AttributeError")

\* One run of the steps of the try block of generate_pinterest: the outcome
\* of each call. The steps are independent, so the runs drawn are the one
\* where every call answers well and those where one call answers otherwise.
GoodRun ==
    [title |-> "text", description |-> "text", tags |-> "list",
     instagram_caption |-> "text", instagram_hashtags |-> "list",
     tiktok_caption |-> "text", tiktok_hashtags |-> "list",
     youtube_metadata |-> "object", edit_image |-> "ok", save_generated_image |-> "ok"]

OutcomesOf(step) ==
    CASE step \in {"title", "description"} -> TextOutcomes
      [] step \in {"instagram_caption", "tiktok_caption"} -> CaptionOutcomes
      [] step \in {"edit_image", "save_generated_image"} -> StepOutcomes
      [] OTHER -> JsonOutcomes

GeneratorRuns ==
    UNION {{[GoodRun EXCEPT ![step] = outcome] : outcome \in OutcomesOf(step)} :
              step \in DOMAIN GoodRun}

(***************************************************************************)
(* Routes: generate_pinterest                                              *)
(***************************************************************************)
\* A path as the text a form field or the state document holds: the tokens
\* between the slashes, with a leading "/" token when the text starts with one.
\* The empty text and None, both falsy, are <<>>.
PathText(rel) == IF rel.absolute THEN <<"/">> \o rel.parts ELSE rel.parts

ParsePath(text) ==
    IF text # <<>> /\ text[1] = "/"
    THEN [absolute |-> TRUE, parts |-> Tail(text)]
    ELSE Rel(text)

ALLOWED_EXTENSIONS == {".png", ".jpg", ".jpeg", ".gif", ".webp"}

\* allowed_file (lines 335-336), on the suffix of the file name.
AllowedFile(suffix) == OriginalSuffix(suffix) \in ALLOWED_EXTENSIONS /\ suffix # ""

\* request.files.get("product_image"): no file, or a file name and bytes.
NoUpload == [present |-> FALSE, suffix |-> "", bytes |-> ""]
Upload(suffix, bytes_data) == [present |-> TRUE, suffix |-> suffix, bytes |-> bytes_data]
Uploads == {NoUpload, Upload(".exe", "b1"), Upload(".png", ""), Upload(".JPG", "b1")}

\* The form as collect_form_values returns it (values stripped).
REQUIRED_FIELDS == <<"market", "sku_or_url", "title", "affiliate_link">>

FullForm(sku) ==
    [market |-> "m", sku_or_url |-> sku, title |-> "t", affiliate_link |-> "l"]

Forms ==
    {FullForm(sku) : sku \in ProductIds}
    \cup {[FullForm("sku1") EXCEPT ![REQUIRED_FIELDS[i]] = ""] : i \in 1..Len(REQUIRED_FIELDS)}
    \cup {[field \in DOMAIN FullForm("") |-> ""]}

\* The original_image_path field of the form: empty, or a file that is gone.
FormPaths == {<<>>, <<"originals", "gone.png">>}

Flash(category, message) == [category |-> category, message |-> message]

\* Lines 686-700: one message per missing field, then one about the image.
ValidationErrors(form, upload, original_image_path) ==
    LET missing == SelectSeq(REQUIRED_FIELDS, LAMBDA field : DictGet(form, field, "") = "")
        image == IF ~upload.present /\ original_image_path = <<>>
                 THEN <<"product_image">>
                 ELSE IF upload.present /\ ~AllowedFile(upload.suffix)
                 THEN <<"image_type">>
                 ELSE <<>>
        fields == missing \o image
    IN  [i \in 1..Len(fields) |-> Flash("error", fields[i])]

\* Lines 720-791: the values the try block computes before it touches the
\* image, and the first exception raised on the way.
GeneratedTexts(form, run) ==
    LET raw_title == DictGet(form, "title", "")
        raw_description == DictGet(form, "description", "")
        title == GenerateText(run["title"], "title_payload")
        refined_title ==
            IF title = "" \/ Lower(title) = "unknown concept" THEN raw_title ELSE title
        description == GenerateText(run["description"], "description_payload")
        generated_description ==
            IF description = "" \/ Lower(description) = "unknown concept"
            THEN (IF raw_description = "" THEN "Compelling Pinterest-ready description."
                  ELSE raw_description)
            ELSE description
        tags == GenerateTags(run["tags"], "title_words")
        instagram_hashtags == GenerateHashtags(run["instagram_hashtags"], "title_words")
        tiktok_hashtags == GenerateHashtags(run["tiktok_hashtags"], "title_words")
        youtube_metadata ==
            GenerateYoutubeMetadata(run["youtube_metadata"],
                [title |-> refined_title, description |-> generated_description,
                 keywords |-> "title_words"])
        errors == SelectSeq(<<instagram_hashtags.raised, tiktok_hashtags.raised,
                              youtube_metadata.raised>>,
                            LAMBDA e : e # "")
    IN  [raised |-> IF errors = <<>> THEN "" ELSE errors[1],
         title |-> refined_title,
         description |-> generated_description,
         tags |-> tags.value,
         instagram_caption |->
            GenerateCaption(run["instagram_caption"], generated_description),
         instagram_hashtags |-> instagram_hashtags.value,
         tiktok_caption |-> GenerateCaption(run["tiktok_caption"], generated_description),
         tiktok_hashtags |-> tiktok_hashtags.value,
         youtube_metadata |-> youtube_metadata.value]

\* Lines 793-836: preview_payload. The keys left out copy form values.
PreviewPayload(form, texts, original_image_path, generated_image_path) ==
    [title |-> texts.title,
     description |-> texts.description,
     tags |-> texts.tags,
     image_data |-> "img",
     generated_image_path |-> generated_image_path,
     original_image_path |-> original_image_path,
     sku_or_url |-> form["sku_or_url"],
     title_input |-> form["title"],
     instagram_caption |-> texts.instagram_caption,
     instagram_hashtags |-> texts.instagram_hashtags,
     instagram_image_path |-> generated_image_path,
     instagram_image_data |-> "img",
     tiktok_caption |-> texts.tiktok_caption,
     tiktok_hashtags |-> texts.tiktok_hashtags,
     youtube_title |-> texts.youtube_metadata.title,
     youtube_description |-> texts.youtube_metadata.description,
     youtube_keywords |-> texts.youtube_metadata.keywords,
     youtube_boost_prompt |-> DictGet(form, "youtube_boost_prompt", "")]

\* What a route leaves behind: where it ended, the messages flashed, the calls
\* made to the Pinterest client, the state file and the stored files.
Ended(stage, flashes, client_calls, f, fs) ==
    [stage |-> stage, flashes |-> flashes, client_calls |-> client_calls,
     file |-> f, files |-> fs]

\* Lines 725-862: the try block and the state write after it.
TryGenerate(f, fs, form, original_image_path, run) ==
    LET texts == GeneratedTexts(form, run)
        stored == StoreImage(fs, "b2", GENERATED_DIR, ".png")
        generated_image_path == PathText(stored.path)
        product_id == form["sku_or_url"]
    IN  IF texts.raised # ""
        THEN Ended("aborted", <<Flash("error", texts.raised)>>, 0, f, fs)
        ELSE IF run["edit_image"] = "fails"
        THEN Ended("aborted", <<Flash("error", "edit_image")>>, 0, f, fs)
        ELSE IF run["save_generated_image"] = "fails"
        THEN Ended("aborted", <<Flash("error", "OSError")>>, 0, f, fs)
        ELSE Ended("generated", <<Flash("info", "Preview generated")>>, 0,
                   UpdateFile(f, product_id,
                       [form_values |-> DictSet(form, "use_affiliate_link", "0"),
                        preview |-> PreviewPayload(form, texts, original_image_path,
                                                   generated_image_path),
                        platforms |->
                           [pinterest |->
                              [status |-> "pending", title |-> texts.title,
                               description |-> texts.description, tags |-> texts.tags,
                               use_affiliate_link |-> "false"]],
                        assets |-> [original_image_path |-> original_image_path,
                                    generated_image_path |-> generated_image_path]]),
                   stored.files)

\* Mutant: the path the form sent is kept for an uploaded image too.
GeneratePinterestKeepsFormPath(f, fs, form, form_path, upload, run) ==
    LET product_id == form["sku_or_url"]
        saved_state == GetProductState(f, product_id)
        original_image_path ==
            IF form_path = <<>> /\ saved_state # EmptyDict
            THEN DictGet(DictGet(saved_state, "assets", EmptyDict),
                         "original_image_path", <<>>)
            ELSE form_path
        errors == ValidationErrors(form, upload, original_image_path)
        loaded == LoadStoredMedia(fs, ParsePath(original_image_path))
        saved == StoreImage(fs, upload.bytes, ORIGINALS_DIR, OriginalSuffix(upload.suffix))
    IN  IF errors # <<>>
        THEN Ended("invalid", errors, 0, f, fs)
        ELSE IF upload.present
        THEN IF upload.bytes = ""
             THEN Ended("empty_upload", <<Flash("error", "empty_image")>>, 0, f, fs)
             ELSE TryGenerate(f, saved.files, form, original_image_path, run)
        ELSE IF loaded.outcome # "bytes"
        THEN Ended("unloadable", <<Flash("error", "load_original")>>, 0, f, fs)
        ELSE TryGenerate(f, fs, form, original_image_path, run)

\* Lines 672-862.
GeneratePinterest(f, fs, form, form_path, upload, run) ==
    LET product_id == form["sku_or_url"]
        saved_state == GetProductState(f, product_id)
        original_image_path ==
            IF form_path = <<>> /\ saved_state # EmptyDict
            THEN DictGet(DictGet(saved_state, "assets", EmptyDict),
                         "original_image_path", <<>>)
            ELSE form_path
        errors == ValidationErrors(form, upload, original_image_path)
        loaded == LoadStoredMedia(fs, ParsePath(original_image_path))
        saved == StoreImage(fs, upload.bytes, ORIGINALS_DIR, OriginalSuffix(upload.suffix))
    IN  IF errors # <<>>
        THEN Ended("invalid", errors, 0, f, fs)
        ELSE IF upload.present
        THEN IF upload.bytes = ""
             THEN Ended("empty_upload", <<Flash("error", "empty_image")>>, 0, f, fs)
             ELSE TryGenerate(f, saved.files, form, PathText(saved.path), run)
        ELSE IF loaded.outcome # "bytes"
        THEN Ended("unloadable", <<Flash("error", "load_original")>>, 0, f, fs)
        ELSE TryGenerate(f, fs, form, original_image_path, run)

(***************************************************************************)
(* Routes: confirm_pinterest                                               *)
(***************************************************************************)
\* The hidden fields the preview page posts back. generated_image_path is
\* whatever the request carries: nothing, the empty text, a file that is
\* gone, a directory, a location outside the storage root, or a stored file.
ConfirmForm(sku) ==
    [sku_or_url |-> sku, title |-> "t", description |-> "d", affiliate_link |-> "l",
     instagram_caption |-> "c", youtube_title |-> "y", tiktok_caption |-> "k"]

RequestPaths(fs) ==
    {<<>>, <<"generated", "gone.png">>, <<"generated">>,
     <<"..", "..", "etc", "secret">>, <<"..", "template_images_old", "secret">>}
    \cup {PathText(stored) : stored \in StoredPaths(fs)}

RawForms(fs) ==
    {ConfirmForm(sku) : sku \in IdInputs}
    \cup {DictSet(ConfirmForm(sku), "generated_image_path", path) :
            sku \in IdInputs, path \in RequestPaths(fs)}

\* create_pinterest_pin: published, skipped for want of a board, None for
\* want of a token, or an exception.
ClientOutcomes == {"published", "skipped", "none", "fails"}

\* extract_form_defaults (lines 447-480).
ExtractFormDefaults(raw) ==
    [key \in {"market", "sku_or_url", "title", "description", "affiliate_link",
              "pinterest_extra", "category", "price", "website_boost_prompt",
              "youtube_boost_prompt", "use_affiliate_link"} |->
        IF key = "use_affiliate_link" THEN DictGet(raw, key, "0") ELSE DictGet(raw, key, "")]

\* rebuild_preview_payload (lines 483-567) as the preview argument of
\* update_product_state: None (no argument) when the image cannot be loaded.
RebuildPreviewPayload(fs, raw) ==
    LET generated_image_path == DictGet(raw, "generated_image_path", <<>>)
        instagram_image_path == DictGet(raw, "instagram_image_path", <<>>)
        instagram == LoadStoredMedia(fs, ParsePath(instagram_image_path))
    IN  IF LoadStoredMedia(fs, ParsePath(generated_image_path)).outcome # "bytes"
        THEN EmptyDict
        ELSE [preview |->
                [title |-> DictGet(raw, "title", ""),
                 description |-> DictGet(raw, "description", ""),
                 tags |-> "parsed",
                 image_data |-> "img",
                 generated_image_path |-> generated_image_path,
                 original_image_path |-> DictGet(raw, "original_image_path", <<>>),
                 sku_or_url |-> DictGet(raw, "sku_or_url", "null"),
                 title_input |-> DictGet(raw, "title", ""),
                 instagram_caption |-> DictGet(raw, "instagram_caption", ""),
                 instagram_hashtags |-> "parsed",
                 instagram_image_path |-> instagram_image_path,
                 instagram_image_data |->
                    IF instagram.outcome = "bytes" THEN "img" ELSE "",
                 tiktok_caption |-> DictGet(raw, "tiktok_caption", ""),
                 tiktok_hashtags |-> "parsed",
                 youtube_title |-> DictGet(raw, "youtube_title", DictGet(raw, "title", "")),
                 youtube_description |->
                    DictGet(raw, "youtube_description", DictGet(raw, "description", "")),
                 youtube_keywords |-> "parsed",
                 youtube_boost_prompt |-> DictGet(raw, "youtube_boost_prompt", "")]]

\* Lines 879-943. The result stored under results.pinterest is named by the
\* status the client returned. Without a result, pin_response.get (line 920)
\* raises AttributeError after the success message, outside any try.
ConfirmPinterest(f, fs, raw, client) ==
    LET generated_image_path == DictGet(raw, "generated_image_path", <<>>)
        form_values == ExtractFormDefaults(raw)
        product_id == form_values["sku_or_url"]
        loaded == LoadStoredMedia(fs, ParsePath(generated_image_path))
        pin == IF client = "published" THEN "pin1" ELSE "null"
    IN  IF loaded.outcome # "bytes"
        THEN Ended("unloadable", <<Flash("error", "load_generated")>>, 0, f, fs)
        ELSE IF client = "fails"
        THEN Ended("publish_failed", <<Flash("error", "publish")>>, 1, f, fs)
        ELSE IF client = "none"
        THEN Ended("escaped", <<Flash("success", "Pinterest pin published")>>, 1, f, fs)
        ELSE Ended("published", <<Flash("success", "Pinterest pin published")>>, 1,
                   UpdateFile(f, product_id,
                       [form_values |-> form_values]
                       @@ RebuildPreviewPayload(fs, raw)
                       @@ [results |-> [pinterest |-> client],
                           platforms |->
                             [pinterest |-> [status |-> "published", pin_id |-> pin,
                                             published |-> "true"]],
                           assets |->
                             [original_image_path |->
                                 DictGet(raw, "original_image_path", <<>>),
                              generated_image_path |-> generated_image_path]]),
                   fs)

(***************************************************************************)
(* Routes: the requests                                                    *)
(***************************************************************************)
\* The record of a request: its inputs as far as the route read them, and
\* how it ended.
Requested(route, product_id, inputs, ended) ==
    [kind |-> route, pid |-> product_id, inputs |-> inputs,
     stage |-> ended.stage, flashes |-> ended.flashes,
     client_calls |-> ended.client_calls, changed |-> ended.file # file]

\* A request is served while the bound on calls and the pool of names allow.
CanCall == nops < MaxCalls /\ Cardinality(Uuids \ UsedUuids(files)) >= 2

generate_pinterest(form, form_path, upload, run) ==
    /\ CanCall
    /\ LET ended == GeneratePinterest(file, files, form, form_path, upload, run)
           called == IF ended.stage \in {"aborted", "generated"} THEN run ELSE EmptyDict
       IN  /\ file' = ended.file
           /\ files' = ended.files
           /\ op' = Requested("generate_pinterest", form["sku_or_url"],
                        [form |-> form, form_path |-> form_path, upload |-> upload,
                         run |-> called],
                        ended)
    /\ nops' = nops + 1
    /\ UNCHANGED <<req, media>>

\* The record of a publishing or generating request: the form, what the
\* generator or client that was reached answered, and what the client was
\* asked to publish.
Asked(raw, called, sent) == [raw |-> raw, client |-> called, sent |-> sent]

Reached(ended, outcome) == IF ended.client_calls = 0 THEN "uncalled" ELSE outcome

confirm_pinterest(raw, client) ==
    /\ CanCall
    /\ LET ended == ConfirmPinterest(file, files, raw, client)
       IN  /\ file' = ended.file
           /\ files' = ended.files
           /\ op' = Requested("confirm_pinterest", raw["sku_or_url"],
                        Asked(raw, Reached(ended, client),
                              IF ended.client_calls = 0 THEN "nothing" ELSE "pin"),
                        ended)
    /\ nops' = nops + 1
    /\ UNCHANGED <<req, media>>

\* The generators answer only a request that reaches the try block, the
\* Pinterest client only one whose image was loaded.
RunsFor(form, form_path, upload) ==
    IF /\ CanCall
       /\ GeneratePinterest(file, files, form, form_path, upload, GoodRun).stage
             = "generated"
    THEN GeneratorRuns
    ELSE {GoodRun}

ClientsFor(raw) ==
    IF CanCall /\ ConfirmPinterest(file, files, raw, "published").client_calls = 1
    THEN ClientOutcomes
    ELSE {"published"}

\* The requests arrive on a fresh installation or after an earlier preview
\* generation for the first product.
EarlierGeneration ==
    GeneratePinterest(Absent, OutsideFiles, FullForm("sku1"), <<>>, Upload(".JPG", "b1"),
                      GoodRun)

InitRoutes ==
    /\ \E earlier \in {Ended("none", <<>>, 0, Absent, OutsideFiles), EarlierGeneration} :
          /\ file = earlier.file
          /\ files = earlier.files
    /\ op = NoOp
    /\ nops = 0
    /\ req = [r \in Requests |-> Idle]
    /\ media = NoCall(Rel(<<>>))

NextRoutes ==
    \/ \E form \in Forms, form_path \in FormPaths, upload \in Uploads :
          \E run \in RunsFor(form, form_path, upload) :
              generate_pinterest(form, form_path, upload, run)
    \/ \E raw \in RawForms(files) :
          \E client \in ClientsFor(raw) : confirm_pinterest(raw, client)

SpecRoutes == InitRoutes /\ [][NextRoutes]_vars

(***************************************************************************)
(* Platform clients: the HTTP calls each helper issues                     *)
(***************************************************************************)
\* What a provider answers to one HTTP call: the status, whether the body
\* is JSON, and the fields of the body (or the headers) the helper reads.
\* Status 0 stands for a call that requests could not complete (connection
\* error, timeout): it raises in place of returning a response.
Response(status, json, body) == [status |-> status, json |-> json, body |-> body]
Ok(body) == Response(200, TRUE, body)
Created(body) == Response(201, TRUE, body)
Failed(status) == Response(status, TRUE, EmptyDict)
NotJson == Response(200, FALSE, EmptyDict)
Unreachable == Response(0, FALSE, EmptyDict)

\* Mutant: an error status is not raised.
FailureOfIgnoresStatus(response) ==
    IF response.status = 0 THEN "ConnectionError" ELSE ""

\* `if response.status_code >= 400: response.raise_for_status()`, after the
\* exception requests itself raises.
FailureOf(response) ==
    IF response.status = 0 THEN "ConnectionError"
    ELSE IF response.status >= 400 THEN "HTTPError"
    ELSE ""

\* One helper call under way: the HTTP calls issued so far with what each
\* carried and what was answered, how the helper ended, and the access token
\* file of the YouTube helper.
ClientStart(token_file) ==
    [calls |-> <<>>, outcome |-> "running", raised |-> "", result |-> EmptyDict,
     token_file |-> token_file, stored_token |-> token_file]

Issue(st, name, carries, response) ==
    [st EXCEPT !.calls = Append(@, [name |-> name, carries |-> carries,
                                    response |-> response])]

Raise(st, error) == [st EXCEPT !.outcome = "raised", !.raised = error]
Return(st, result) == [st EXCEPT !.outcome = "returned", !.result = result]
ReturnNone(st) == [st EXCEPT !.outcome = "none"]

CallsNamed(calls, name) == SelectSeq(calls, LAMBDA call : call.name = name)

\* The answer to the next call of that name; past the end of the script the
\* provider keeps answering as it last did.
Answer(env, st, name) ==
    LET n == Len(CallsNamed(st.calls, name)) + 1
    IN  env[name][IF n > Len(env[name]) THEN Len(env[name]) ELSE n]

(***************************************************************************)
(* Platform clients: YouTube                                               *)
(***************************************************************************)
UPLOAD_ATTEMPTS == 2

\* The token the n-th refresh hands out.
AccessToken(n) == IF n = 1 THEN "t1" ELSE "t2"

\* refresh_youtube_access_token (lines 41-72).
RefreshYoutubeAccessToken(env, st) ==
    LET answer == Answer(env, st, "token")
        called == Issue(st, "token", "refresh_token", answer)
        access_token == DictGet(answer.body, "access_token", "")
    IN  IF ~env.credentials THEN Raise(st, "RuntimeError")
        ELSE IF FailureOf(answer) # "" THEN Raise(called, FailureOf(answer))
        ELSE IF ~answer.json THEN Raise(called, "JSONDecodeError")
        ELSE IF access_token = "" THEN Raise(called, "RuntimeError")
        ELSE [called EXCEPT !.token_file = access_token]

\* _get_youtube_token (lines 31-38): the stored token, else a refresh.
GetYoutubeToken(env, st) ==
    IF st.token_file # "" THEN st ELSE RefreshYoutubeAccessToken(env, st)

\* Mutant: a 401 refreshes the token on the second attempt too.
AfterErrorRefreshesAgain(env, attempt, st, response) ==
    IF response.status = 401
    THEN LET refreshed == RefreshYoutubeAccessToken(env, st)
         IN  IF refreshed.outcome = "raised" THEN refreshed
             ELSE [refreshed EXCEPT !.outcome = "continue"]
    ELSE Raise(st, "HTTPError")

\* Lines 112-118 and 134-140: what an error status leads to.
AfterError(env, attempt, st, response) ==
    IF response.status = 401 /\ attempt = 0
    THEN LET refreshed == RefreshYoutubeAccessToken(env, st)
         IN  IF refreshed.outcome = "raised" THEN refreshed
             ELSE [refreshed EXCEPT !.outcome = "continue"]
    ELSE Raise(st, "HTTPError")

\* Lines 99-147: one pass of the loop body.
YoutubeAttempt(env, attempt, st) ==
    LET got == GetYoutubeToken(env, st)
        token == got.token_file
        init_resp == Answer(env, got, "init")
        inited == Issue(got, "init", token, init_resp)
        upload_resp == Answer(env, inited, "upload")
        uploaded == Issue(inited, "upload", token, upload_resp)
    IN  IF got.outcome = "raised" THEN got
        ELSE IF init_resp.status = 0 THEN Raise(inited, "ConnectionError")
        ELSE IF init_resp.status >= 400 THEN AfterError(env, attempt, inited, init_resp)
        ELSE IF DictGet(init_resp.body, "Location", "") = ""
        THEN Raise(inited, "RuntimeError")
        ELSE IF upload_resp.status = 0 THEN Raise(uploaded, "ConnectionError")
        ELSE IF upload_resp.status >= 400
        THEN AfterError(env, attempt, uploaded, upload_resp)
        ELSE IF ~upload_resp.json THEN Raise(uploaded, "JSONDecodeError")
        ELSE Return(uploaded,
                    [video_id |-> DictGet(upload_resp.body, "id", "null")])

\* Lines 98-149: for attempt in range(2), then the raise after the loop.
RECURSIVE YoutubeLoop(_, _, _)
YoutubeLoop(env, attempt, st) ==
    IF attempt = UPLOAD_ATTEMPTS THEN Raise(st, "RuntimeError")
    ELSE LET done == YoutubeAttempt(env, attempt, st)
         IN  IF done.outcome = "continue"
             THEN YoutubeLoop(env, attempt + 1, [done EXCEPT !.outcome = "running"])
             ELSE done

\* publish_short_video (lines 75-149).
PublishShortVideo(env) == YoutubeLoop(env, 0, ClientStart(env.token_file))

TokenAnswers == {Ok([access_token |-> "t"]), Ok(EmptyDict), Failed(401)}
InitAnswers == {Ok([Location |-> "u"]), Ok(EmptyDict), Failed(401), Failed(500), Unreachable}
UploadAnswers == {Ok([id |-> "v1"]), Ok(EmptyDict), NotJson, Failed(401), Failed(500)}

\* The n-th refresh answers with its own token.
Numbered(answers) ==
    [n \in 1..2 |-> IF DictGet(answers[n].body, "access_token", "") = "" THEN answers[n]
                    ELSE Ok([access_token |-> AccessToken(n)])]

YoutubeEnvs ==
    {[token_file |-> token_file, credentials |-> credentials,
      token |-> Numbered(token), init |-> init, upload |-> upload] :
        token_file \in {"", "t0"}, credentials \in BOOLEAN,
        token \in [1..2 -> TokenAnswers], init \in [1..2 -> InitAnswers],
        upload \in [1..2 -> UploadAnswers]}

(***************************************************************************)
(* Platform clients: TikTok                                                *)
(***************************************************************************)
\* Mutant: the upload is sent without looking for the publish_id.
PublishTiktokPostIgnoresInit(env) ==
    LET start == ClientStart("")
        inited == Issue(start, "init", "caption", env.init)
        payload == env.init.body
        upload_url == DictGet(payload, "upload_url", "")
        publish_id == DictGet(payload, "publish_id", "")
        uploaded == Issue(inited, "upload", upload_url, env.upload)
        published == Issue(uploaded, "publish", publish_id, env.publish)
    IN  IF ~env.credentials THEN Raise(start, "RuntimeError")
        ELSE IF FailureOf(env.init) # "" THEN Raise(inited, FailureOf(env.init))
        ELSE IF ~env.init.json THEN Raise(inited, "JSONDecodeError")
        ELSE IF upload_url = "" THEN Raise(inited, "RuntimeError")
        ELSE IF FailureOf(env.upload) # "" THEN Raise(uploaded, FailureOf(env.upload))
        ELSE IF FailureOf(env.publish) # "" THEN Raise(published, FailureOf(env.publish))
        ELSE IF ~env.publish.json THEN Raise(published, "JSONDecodeError")
        ELSE Return(published, env.publish.body)

\* publish_tiktok_post (lines 22-68).
PublishTiktokPost(env) ==
    LET start == ClientStart("")
        inited == Issue(start, "init", "caption", env.init)
        payload == env.init.body
        upload_url == DictGet(payload, "upload_url", "")
        publish_id == DictGet(payload, "publish_id", "")
        uploaded == Issue(inited, "upload", upload_url, env.upload)
        published == Issue(uploaded, "publish", publish_id, env.publish)
    IN  IF ~env.credentials THEN Raise(start, "RuntimeError")
        ELSE IF FailureOf(env.init) # "" THEN Raise(inited, FailureOf(env.init))
        ELSE IF ~env.init.json THEN Raise(inited, "JSONDecodeError")
        ELSE IF upload_url = "" \/ publish_id = "" THEN Raise(inited, "RuntimeError")
        ELSE IF FailureOf(env.upload) # "" THEN Raise(uploaded, FailureOf(env.upload))
        ELSE IF FailureOf(env.publish) # "" THEN Raise(published, FailureOf(env.publish))
        ELSE IF ~env.publish.json THEN Raise(published, "JSONDecodeError")
        ELSE Return(published, env.publish.body)

TiktokInitAnswers ==
    {Ok([upload_url |-> "up1", publish_id |-> id]) : id \in {"p1", "p2", ""}}
    \cup {Ok([upload_url |-> "", publish_id |-> "p1"]), Ok([upload_url |-> "up1"]),
          Ok([publish_id |-> "p1"]), Ok(EmptyDict), NotJson, Failed(401), Failed(500),
          Unreachable}
TiktokUploadAnswers == {Ok(EmptyDict), Created(EmptyDict), Failed(401), Failed(500), Unreachable}
TiktokPublishAnswers ==
    {Ok([publish_id |-> "p1"]), Ok(EmptyDict), NotJson, Failed(401), Failed(500), Unreachable}

TiktokEnvs ==
    {[credentials |-> credentials, init |-> init, upload |-> upload, publish |-> publish] :
        credentials \in BOOLEAN, init \in TiktokInitAnswers,
        upload \in TiktokUploadAnswers, publish \in TiktokPublishAnswers}

(***************************************************************************)
(* Platform clients: Pinterest, Instagram, WooCommerce                     *)
(***************************************************************************)
\* get_default_board_id (lines 81-104): the first board, None on any other
\* answer and on any exception.
DefaultBoardId(response) ==
    IF response.status = 200 /\ response.json
    THEN DictGet(response.body, "id", "")
    ELSE ""

\* create_pinterest_pin (lines 15-78). token_exists: access_token.txt is
\* there; board_id: PINTEREST_BOARD_ID.
CreatePinterestPin(env) ==
    LET start == ClientStart("")
        asked == IF env.board_id # "" THEN start
                 ELSE Issue(start, "boards", env.access_token, env.boards)
        board_id == IF env.board_id # "" THEN env.board_id ELSE DefaultBoardId(env.boards)
        pinned == Issue(asked, "pins", board_id, env.pins)
    IN  IF ~env.token_exists THEN Raise(start, "FileNotFoundError")
        ELSE IF env.access_token = "" THEN ReturnNone(start)
        ELSE IF board_id = ""
        THEN Return(asked, [status |-> "skipped", id |-> "null", url |-> "null"])
        ELSE IF FailureOf(env.pins) # "" THEN Raise(pinned, FailureOf(env.pins))
        ELSE IF ~env.pins.json THEN Raise(pinned, "JSONDecodeError")
        ELSE Return(pinned, [status |-> "created",
                             id |-> DictGet(env.pins.body, "id", "null"),
                             url |-> DictGet(env.pins.body, "link", "null")])

PinterestEnvs ==
    {[token_exists |-> token_exists, access_token |-> access_token, board_id |-> board_id,
      boards |-> boards, pins |-> pins] :
        token_exists \in BOOLEAN, access_token \in {"", "tok"}, board_id \in {"", "b1"},
        boards \in {Ok([id |-> "b2"]), Ok(EmptyDict), NotJson, Failed(401), Unreachable},
        pins \in {Created([id |-> "pin1", link |-> "l"]), Ok(EmptyDict), NotJson,
                  Failed(401), Failed(500), Unreachable}}

\* _ensure_public_image_url (lines 68-79): a local file is uploaded to
\* WordPress first; without a URL from there the local URL is used.
EnsurePublicImageUrl(env, st) ==
    IF env.local THEN Issue(st, "wordpress_media", "image", env.wordpress) ELSE st

PublicImageUrl(env) ==
    IF env.local /\ env.wordpress.status = 201
    THEN DictGet(env.wordpress.body, "source_url", "image_url")
    ELSE "image_url"

\* _create_media_container (lines 82-119), called by publish_instagram_post
\* (media_type IMAGE) and publish_instagram_story (STORIES).
CreateMediaContainer(media_type, env) ==
    LET start == ClientStart("")
        ensured == EnsurePublicImageUrl(env, start)
        created == Issue(ensured, "media", media_type, env.media)
        creation_id == DictGet(env.media.body, "id", "")
        published == Issue(created, "media_publish", creation_id, env.media_publish)
    IN  IF ~env.credentials THEN Raise(start, "RuntimeError")
        ELSE IF FailureOf(env.media) # "" THEN Raise(created, FailureOf(env.media))
        ELSE IF ~env.media.json THEN Raise(created, "JSONDecodeError")
        ELSE IF creation_id = "" THEN Raise(created, "RuntimeError")
        ELSE IF FailureOf(env.media_publish) # ""
        THEN Raise(published, FailureOf(env.media_publish))
        ELSE IF ~env.media_publish.json THEN Raise(published, "JSONDecodeError")
        ELSE Return(published, env.media_publish.body)

MediaTypes == {"IMAGE", "STORIES"}

InstagramEnvs ==
    {[credentials |-> credentials, local |-> local, wordpress |-> wordpress,
      media |-> created, media_publish |-> media_publish] :
        credentials \in BOOLEAN, local \in BOOLEAN,
        wordpress \in {Created([source_url |-> "w"]), Failed(500), Unreachable},
        created \in {Ok([id |-> "c1"]), Ok(EmptyDict), NotJson, Failed(401), Failed(500),
                   Unreachable},
        media_publish \in {Ok([id |-> "m1"]), Ok(EmptyDict), NotJson, Failed(401),
                           Failed(500), Unreachable}}

\* create_woocommerce_product (lines 123-172): the image upload never
\* raises and its URL is not used; only status 201 yields the permalink.
CreateWoocommerceProduct(env) ==
    LET start == ClientStart("")
        uploaded == IF env.image_exists
                    THEN Issue(start, "wordpress_media", "image", env.media)
                    ELSE start
        posted == Issue(uploaded, "products", "product", env.products)
    IN  IF ~env.credentials THEN ReturnNone(start)
        ELSE IF env.products.status = 0 THEN Raise(posted, "ConnectionError")
        ELSE IF env.products.status # 201 THEN ReturnNone(posted)
        ELSE IF ~env.products.json THEN Raise(posted, "JSONDecodeError")
        ELSE IF "permalink" \notin DOMAIN env.products.body THEN Raise(posted, "KeyError")
        ELSE Return(posted, [product_url |-> env.products.body["permalink"]])

WoocommerceEnvs ==
    {[credentials |-> credentials, image_exists |-> image_exists, media |-> uploaded,
      products |-> products] :
        credentials \in BOOLEAN, image_exists \in BOOLEAN,
        uploaded \in {Created([source_url |-> "w"]), Failed(500), Unreachable},
        products \in {Created([permalink |-> "url"]), Created(EmptyDict),
                      Response(201, FALSE, EmptyDict), Ok([permalink |-> "url"]),
                      Failed(401), Failed(500), Unreachable}}

(***************************************************************************)
(* Platform clients: one call of a helper                                  *)
(***************************************************************************)
\* The record of a helper call: which helper, what it was asked to send, and
\* how it went.
ClientCalled(client, sent, done) ==
    [kind |-> "client", client |-> client, sent |-> sent, calls |-> done.calls,
     outcome |-> done.outcome, raised |-> done.raised, result |-> done.result,
     token_file |-> done.token_file, stored_token |-> done.stored_token]

publish_short_video(env) ==
    /\ op.kind = "none"
    /\ op' = ClientCalled("youtube", "video", PublishShortVideo(env))
    /\ nops' = nops + 1
    /\ UNCHANGED <<file, req, files, media>>

publish_tiktok_post(env) ==
    /\ op.kind = "none"
    /\ op' = ClientCalled("tiktok", "video", PublishTiktokPost(env))
    /\ nops' = nops + 1
    /\ UNCHANGED <<file, req, files, media>>

create_pinterest_pin(env) ==
    /\ op.kind = "none"
    /\ op' = ClientCalled("pinterest", "pin", CreatePinterestPin(env))
    /\ nops' = nops + 1
    /\ UNCHANGED <<file, req, files, media>>

create_media_container(media_type, env) ==
    /\ op.kind = "none"
    /\ op' = ClientCalled("instagram", media_type, CreateMediaContainer(media_type, env))
    /\ nops' = nops + 1
    /\ UNCHANGED <<file, req, files, media>>

create_woocommerce_product(env) ==
    /\ op.kind = "none"
    /\ op' = ClientCalled("woocommerce", "product", CreateWoocommerceProduct(env))
    /\ nops' = nops + 1
    /\ UNCHANGED <<file, req, files, media>>

NextClients ==
    \/ \E env \in YoutubeEnvs : publish_short_video(env)
    \/ \E env \in TiktokEnvs : publish_tiktok_post(env)
    \/ \E env \in PinterestEnvs : create_pinterest_pin(env)
    \/ \E media_type \in MediaTypes, env \in InstagramEnvs :
          create_media_container(media_type, env)
    \/ \E env \in WoocommerceEnvs : create_woocommerce_product(env)

SpecClients == Init /\ [][NextClients]_vars

(***************************************************************************)
(* Video duration: int(float(text)) and the clamp                          *)
(***************************************************************************)
VIDEO_DURATION_DEFAULT == 8
VIDEO_DURATION_MIN == 4
VIDEO_DURATION_MAX == 60

\* A text is the sequence of its characters.
Digits == <<"0", "1", "2", "3", "4", "5", "6", "7", "8", "9">>

IsDigit(c) == \E d \in 1..Len(Digits) : Digits[d] = c

DigitValue(c) == (CHOOSE d \in 1..Len(Digits) : Digits[d] = c) - 1

\* The number a run of digits denotes; the empty run denotes 0.
RECURSIVE DigitsValue(_)
DigitsValue(text) ==
    IF text = <<>> THEN 0
    ELSE 10 * DigitsValue(SubSeq(text, 1, Len(text) - 1)) + DigitValue(text[Len(text)])

\* str(n) for a natural number.
RECURSIVE Str(_)
Str(n) == IF n < 10 THEN <<Digits[n + 1]>> ELSE Str(n \div 10) \o <<Digits[(n % 10) + 1]>>

AllDigits(text) == \A i \in 1..Len(text) : IsDigit(text[i])

\* float(text) for a stripped text without exponent: an optional sign, then
\* inf, nan, or digits with at most one point and at least one digit.
\* `whole` is the part before the point.
ParseFloat(text) ==
    LET negative == text # <<>> /\ text[1] \in {"-", "+"}
        unsigned == IF negative THEN Tail(text) ELSE text
        points == {i \in 1..Len(unsigned) : unsigned[i] = "."}
        point == IF points = {} THEN Len(unsigned) + 1
                 ELSE CHOOSE i \in points : \A j \in points : i <= j
        whole == SubSeq(unsigned, 1, point - 1)
        fraction == SubSeq(unsigned, point + 1, Len(unsigned))
    IN  IF unsigned = <<"i", "n", "f">> THEN [kind |-> "inf", whole |-> 0, sign |-> 1]
        ELSE IF unsigned = <<"n", "a", "n">> THEN [kind |-> "nan", whole |-> 0, sign |-> 1]
        ELSE IF AllDigits(whole) /\ AllDigits(fraction) /\ Len(whole) + Len(fraction) >= 1
        THEN [kind |-> "number", whole |-> DigitsValue(whole),
              sign |-> IF text[1] = "-" THEN -1 ELSE 1]
        ELSE [kind |-> "invalid", whole |-> 0, sign |-> 1]

Max(a, b) == IF a >= b THEN a ELSE b
Min(a, b) == IF a <= b THEN a ELSE b

\* Lines 1234-1243: the value sent, else the preview's, else the default;
\* int(float(...)) truncates towards zero, raises ValueError for a text that
\* is no number and for nan, both caught, and OverflowError for an infinity,
\* which is not.
DurationSeconds(raw_value, preview_value) ==
    LET first == IF raw_value # <<>> THEN raw_value ELSE preview_value
        duration_value == IF first # <<>> THEN first ELSE Str(VIDEO_DURATION_DEFAULT)
        parsed == ParseFloat(duration_value)
        duration_seconds ==
            IF parsed.kind = "number" THEN parsed.sign * parsed.whole
            ELSE VIDEO_DURATION_DEFAULT
    IN  IF parsed.kind = "inf" THEN Raised("OverflowError")
        ELSE Returned(Max(VIDEO_DURATION_MIN, Min(VIDEO_DURATION_MAX, duration_seconds)))

DurationChars == {"0", "4", "6", "9", ".", "-", "i", "n", "f", "a"}

\* video_duration_seconds as collect_form_values hands it over.
DurationTexts == SeqsUpTo(DurationChars, MaxDurationLen)

\* rebuild_preview_payload sets no video_duration_seconds.
NoPreviewDuration == <<>>

InitDuration ==
    /\ file = Absent
    /\ op \in {[kind |-> "submitted", text |-> text] : text \in DurationTexts}
    /\ nops = 0
    /\ req = [r \in Requests |-> Idle]
    /\ files = OutsideFiles
    /\ media = NoCall(Rel(<<>>))

\* The duration generate_platform_video hands to generate_video_from_image.
video_duration ==
    /\ op.kind = "submitted"
    /\ LET duration == DurationSeconds(op.text, NoPreviewDuration)
       IN  op' = [kind |-> "duration", text |-> op.text, raised |-> duration.raised,
                  passed |-> IF duration.raised = "" THEN duration.value ELSE 0]
    /\ nops' = nops + 1
    /\ UNCHANGED <<file, req, files, media>>

NextDuration == video_duration

SpecDuration == InitDuration /\ [][NextDuration]_vars

(***************************************************************************)
(* Routes: what the publishing requests carry                              *)
(***************************************************************************)
\* The stored files of one directory of the storage root, as form texts.
StoredUnder(fs, directory) ==
    {PathText(stored) : stored \in {p \in StoredPaths(fs) : p.parts[1] = directory}}

AnyOf(paths) == CHOOSE path \in paths : TRUE

\* The hidden path fields of the preview page: none, files that are gone,
\* or the files the store holds.
PathFields(fs, held) ==
    LET generated == StoredUnder(fs, "generated")
        originals == StoredUnder(fs, "originals")
        videos == StoredUnder(fs, "videos")
    IN  CASE held = "gone" ->
                [generated_image_path |-> <<"generated", "gone.png">>,
                 instagram_image_path |-> <<"generated", "gone.png">>,
                 original_image_path |-> <<"originals", "gone.png">>,
                 generated_video_path |-> <<"videos", "gone.mp4">>]
          [] held = "stored" ->
                (IF generated = {} THEN EmptyDict
                 ELSE [generated_image_path |-> AnyOf(generated),
                       instagram_image_path |-> AnyOf(generated)])
                @@ (IF originals = {} THEN EmptyDict
                    ELSE [original_image_path |-> AnyOf(originals)])
                @@ (IF videos = {} THEN EmptyDict
                    ELSE [generated_video_path |-> AnyOf(videos)])
          [] OTHER -> EmptyDict

Holdings == {"none", "gone", "stored"}

PublishForms(fs) ==
    {ConfirmForm(sku) @@ PathFields(fs, held) : sku \in IdInputs, held \in Holdings}

\* `raw.get(a) or raw.get(b) or ...` over path fields.
FirstPath(raw, fields) ==
    LET given == SelectSeq(fields, LAMBDA field : DictGet(raw, field, <<>>) # <<>>)
    IN  IF given = <<>> THEN <<>> ELSE raw[given[1]]

\* A route that let an exception out: Flask answers with the error page.
Escaped(error, flashes, client_calls, f, fs) ==
    Ended("escaped", flashes, client_calls, f, fs)

(***************************************************************************)
(* Routes: save_draft                                                      *)
(***************************************************************************)
\* Lines 625-668.
SaveDraftStoresFirst(f, fs, raw, upload) ==
    LET form_values == ExtractFormDefaults(raw)
        product_id == form_values["sku_or_url"]
        saved == StoreImage(fs, upload.bytes, ORIGINALS_DIR, OriginalSuffix(upload.suffix))
    IN  IF product_id = ""
        THEN Ended("invalid", <<Flash("error", "sku_or_url")>>, 0, f, fs)
        ELSE IF upload.present /\ ~AllowedFile(upload.suffix)
        THEN Ended("invalid", <<Flash("error", "image_type")>>, 0, f, fs)
        ELSE IF upload.present /\ upload.bytes = ""
        THEN Ended("empty_upload", <<Flash("error", "empty_image")>>, 0, f, saved.files)
        ELSE Ended("saved", <<Flash("success", "Draft saved")>>, 0, f, fs)

SaveDraft(f, fs, raw, upload) ==
    LET form_values == ExtractFormDefaults(raw)
        product_id == form_values["sku_or_url"]
        saved == StoreImage(fs, upload.bytes, ORIGINALS_DIR, OriginalSuffix(upload.suffix))
        original_image_path == PathText(saved.path)
        with_path == DictSet(raw, "original_image_path", original_image_path)
    IN  IF product_id = ""
        THEN Ended("invalid", <<Flash("error", "sku_or_url")>>, 0, f, fs)
        ELSE IF upload.present /\ ~AllowedFile(upload.suffix)
        THEN Ended("invalid", <<Flash("error", "image_type")>>, 0, f, fs)
        ELSE IF upload.present /\ upload.bytes = ""
        THEN Ended("empty_upload", <<Flash("error", "empty_image")>>, 0, f, fs)
        ELSE IF upload.present
        THEN Ended("saved", <<Flash("success", "Draft saved")>>, 0,
                   UpdateFile(f, product_id,
                       [form_values |->
                           DictSet(form_values, "original_image_path", original_image_path)]
                       @@ RebuildPreviewPayload(saved.files, with_path)
                       @@ [assets |-> [original_image_path |-> original_image_path]]),
                   saved.files)
        ELSE Ended("saved", <<Flash("success", "Draft saved")>>, 0,
                   UpdateFile(f, product_id,
                       [form_values |-> form_values]
                       @@ RebuildPreviewPayload(fs, raw)
                       @@ [assets |-> EmptyDict]),
                   fs)

(***************************************************************************)
(* Routes: Instagram                                                       *)
(***************************************************************************)
\* f"instagram_{label}"
InstagramPlatform(label) ==
    CASE label = "story" -> "instagram_story"
      [] label = "feed" -> "instagram_feed"
      [] label = "reel" -> "instagram_reel"
      [] OTHER -> "instagram_"

\* Lines 946-1014. edit: the image editor; saving: save_generated_image.
GenerateInstagramImage(f, fs, raw, edit, saving) ==
    LET form_values == ExtractFormDefaults(raw)
        product_id == form_values["sku_or_url"]
        rebuilt == RebuildPreviewPayload(fs, raw)
        base_image_path == FirstPath(raw, <<"original_image_path", "generated_image_path">>)
        loaded == LoadStoredMedia(fs, ParsePath(base_image_path))
        variant == Lower(DictGet(raw, "instagram_variant", "feed"))
        variant_label == IF variant = "story" THEN "story" ELSE "feed"
        stored == StoreImage(fs, "b2", GENERATED_DIR, ".png")
        instagram_image_path == PathText(stored.path)
        preview_payload ==
            (IF rebuilt = EmptyDict THEN EmptyDict ELSE rebuilt.preview)
        refreshed ==
            [instagram_image_path |-> instagram_image_path, instagram_image_data |-> "img"]
            @@ preview_payload
    IN  IF base_image_path = <<>>
        THEN Ended("invalid", <<Flash("error", "base_image")>>, 0, f, fs)
        ELSE IF loaded.outcome # "bytes"
        THEN Ended("unloadable", <<Flash("error", "load_base")>>, 0, f, fs)
        ELSE IF edit = "fails"
        THEN Ended("aborted", <<Flash("error", "edit_image")>>, 0, f, fs)
        ELSE IF saving = "fails"
        THEN Escaped("OSError", <<>>, 0, f, fs)
        ELSE Ended("generated", <<Flash("success", "Instagram visual refreshed")>>, 0,
                   UpdateFile(f, product_id,
                       [form_values |-> form_values,
                        preview |-> refreshed,
                        platforms |->
                           (InstagramPlatform(variant_label) :>
                               [status |-> "pending", image_path |-> instagram_image_path,
                                variant |-> variant_label, use_affiliate_link |-> "false"]),
                        assets |-> [instagram_image_path |-> instagram_image_path]]),
                   stored.files)

PublishInstagram(f, fs, raw, client) ==
    LET form_values == ExtractFormDefaults(raw)
        product_id == form_values["sku_or_url"]
        generated_image_path ==
            FirstPath(raw, <<"instagram_image_path", "generated_image_path">>)
        target == DictGet(raw, "target", "feed")
        sent == IF target = "story" THEN "story" ELSE "feed"
    IN  IF generated_image_path = <<>>
        THEN Ended("invalid", <<Flash("error", "generated_image")>>, 0, f, fs)
             @@ [sent |-> "nothing"]
        ELSE IF client = "fails"
        THEN Ended("publish_failed", <<Flash("error", "publish")>>, 1, f, fs)
             @@ [sent |-> sent]
        ELSE Ended("published", <<Flash("success", "Instagram content published")>>, 1,
                   UpdateFile(f, product_id,
                       [form_values |-> form_values]
                       @@ RebuildPreviewPayload(fs, raw)
                       @@ [platforms |->
                             (InstagramPlatform(Lower(target)) :>
                                 [status |-> "published", use_affiliate_link |-> "false"])]),
                   fs)
             @@ [sent |-> sent]

(***************************************************************************)
(* Routes: website                                                         *)
(***************************************************************************)
\* _hydrate_preview (lines 75-108): the image data is loaded again.
HydratePreview(fs, preview) ==
    LET image_path == DictGet(preview, "generated_image_path", <<>>)
    IN  IF image_path # <<>> /\ DictGet(preview, "image_data", "") = ""
        THEN DictSet(preview, "image_data",
                     IF LoadStoredMedia(fs, ParsePath(image_path)).outcome = "bytes"
                     THEN "img" ELSE "")
        ELSE preview

\* Lines 1066-1183. client: create_woocommerce_product gave a URL, None, or
\* raised.
PublishWebsite(f, fs, raw, client) ==
    LET form_values == ExtractFormDefaults(raw)
        product_id == form_values["sku_or_url"]
        rebuilt == RebuildPreviewPayload(fs, raw)
        saved_state == IF product_id # "" THEN GetProductState(f, product_id) ELSE EmptyDict
        saved_preview == DictGet(saved_state, "preview", EmptyDict)
        preview_payload ==
            IF rebuilt # EmptyDict THEN rebuilt.preview
            ELSE IF saved_preview # EmptyDict THEN HydratePreview(fs, saved_preview)
            ELSE EmptyDict
        assets == DictGet(saved_state, "assets", EmptyDict)
        from_preview ==
            FirstPath(preview_payload, <<"original_image_path", "generated_image_path">>)
        direct == DictGet(raw, "original_image_path", <<>>)
        image_relative ==
            IF from_preview # <<>> THEN from_preview
            ELSE IF direct # <<>> THEN direct
            ELSE FirstPath(assets, <<"original_image_path", "generated_image_path">>)
        resolved == ResolveStoragePath(fs, ParsePath(image_relative))
        shown ==
            IF preview_payload # EmptyDict THEN preview_payload
            ELSE [title |-> form_values["title"],
                  description |-> form_values["description"],
                  tags |-> "parsed",
                  original_image_path |-> image_relative,
                  generated_image_path |-> <<>>,
                  category |-> form_values["category"],
                  price |-> form_values["price"],
                  website_boost_prompt |-> form_values["website_boost_prompt"]]
        title == IF DictGet(shown, "title", "") # "" THEN shown["title"]
                 ELSE form_values["title"]
        description == IF DictGet(shown, "description", "") # "" THEN shown["description"]
                       ELSE form_values["description"]
    IN  IF product_id = ""
        THEN Ended("invalid", <<Flash("error", "sku_or_url")>>, 0, f, fs)
        ELSE IF form_values["affiliate_link"] = ""
        THEN Ended("invalid", <<Flash("error", "affiliate_link")>>, 0, f, fs)
        ELSE IF form_values["price"] = ""
        THEN Ended("invalid", <<Flash("error", "price")>>, 0, f, fs)
        ELSE IF resolved.outcome # "path"
        THEN Ended("invalid", <<Flash("error", "original_image")>>, 0, f, fs)
        ELSE IF title = "" \/ description = ""
        THEN Ended("invalid", <<Flash("error", "title_description")>>, 0, f, fs)
        ELSE IF client = "fails"
        THEN Ended("publish_failed", <<Flash("error", "publish")>>, 1, f, fs)
        ELSE IF client = "none"
        THEN Ended("publish_failed", <<Flash("error", "credentials")>>, 1, f, fs)
        ELSE Ended("published", <<Flash("success", "Product published to Kaymio")>>, 1,
                   UpdateFile(f, product_id,
                       [form_values |-> form_values,
                        preview |-> shown,
                        platforms |->
                           [website |-> [status |-> "published", product_url |-> "url"]],
                        results |-> [website |-> "published"]]),
                   fs)

(***************************************************************************)
(* Routes: videos                                                          *)
(***************************************************************************)
SUPPORTED_VIDEO_PLATFORMS == {"youtube", "tiktok"}

\* Lines 1186-1283. platform: the URL segment; video: the video generator;
\* saving: save_generated_video.
GeneratePlatformVideo(f, fs, platform, raw, video, saving) ==
    LET target == Lower(platform)
        form_values == ExtractFormDefaults(raw)
        product_id == form_values["sku_or_url"]
        rebuilt == RebuildPreviewPayload(fs, raw)
        preview_payload == IF rebuilt = EmptyDict THEN EmptyDict ELSE rebuilt.preview
        base_image_path ==
            FirstPath(raw, <<"original_image_path", "instagram_image_path",
                             "generated_image_path">>)
        loaded == LoadStoredMedia(fs, ParsePath(base_image_path))
        boost_prompt == DictGet(raw, "youtube_boost_prompt", "")
        duration ==
            DurationSeconds(DictGet(raw, "video_duration_seconds", <<>>),
                            DictGet(preview_payload, "video_duration_seconds", <<>>))
        stored == StoreImage(fs, "b2", VIDEOS_DIR, ".mp4")
        video_path == PathText(stored.path)
        filled ==
            [generated_video_path |-> video_path,
             video_duration_seconds |-> Str(duration.value)]
            @@ (IF target = "youtube" THEN [youtube_boost_prompt |-> boost_prompt]
                ELSE EmptyDict)
            @@ preview_payload
    IN  IF target \notin SUPPORTED_VIDEO_PLATFORMS
        THEN Ended("not_found", <<>>, 0, f, fs)
        ELSE IF base_image_path = <<>>
        THEN Ended("invalid", <<Flash("error", "base_image")>>, 0, f, fs)
        ELSE IF loaded.outcome # "bytes"
        THEN Ended("unloadable", <<Flash("error", "load_base")>>, 0, f, fs)
        ELSE IF duration.raised # ""
        THEN Escaped(duration.raised, <<>>, 0, f, fs)
        ELSE IF video = "fails"
        THEN Ended("aborted", <<Flash("error", "generate_video")>>, 0, f, fs)
        ELSE IF saving = "fails"
        THEN Escaped("OSError", <<>>, 0, f, fs)
        ELSE Ended("generated", <<Flash("success", "video generated")>>, 0,
                   UpdateFile(f, product_id,
                       [form_values |-> form_values,
                        preview |-> filled,
                        platforms |->
                           (target :>
                               [status |-> "pending", video_path |-> video_path,
                                base_image_path |-> base_image_path,
                                use_affiliate_link |-> "false"]),
                        assets |-> [generated_video_path |-> video_path]]),
                   stored.files)

\* Lines 1286-1360. metadata: what the OpenAI call behind
\* generate_youtube_metadata gave back, when the form lacks the keywords.
PublishYoutube(f, fs, raw, metadata, client) ==
    LET form_values == ExtractFormDefaults(raw)
        product_id == form_values["sku_or_url"]
        video_path == DictGet(raw, "generated_video_path", <<>>)
        loaded == LoadStoredMedia(fs, ParsePath(video_path))
        base_title == DictGet(raw, "title", "")
        base_description == DictGet(raw, "description", "")
        title == IF DictGet(raw, "youtube_title", "") # "" THEN raw["youtube_title"]
                 ELSE base_title
        description ==
            IF DictGet(raw, "youtube_description", "") # "" THEN raw["youtube_description"]
            ELSE base_description
        keywords == IF DictGet(raw, "youtube_keywords_payload", "") # "" THEN "parsed" ELSE ""
        needs_metadata == title = "" \/ description = "" \/ keywords = ""
        generated ==
            GenerateYoutubeMetadata(metadata,
                [title |-> base_title, description |-> base_description,
                 keywords |-> "title_words"])
        rebuilt == RebuildPreviewPayload(fs, raw)
        preview ==
            IF rebuilt = EmptyDict \/ ~needs_metadata THEN rebuilt
            ELSE [preview |->
                    [youtube_title |-> IF title # "" THEN title ELSE generated.value.title,
                     youtube_description |->
                        IF description # "" THEN description
                        ELSE generated.value.description,
                     youtube_keywords |->
                        IF keywords # "" THEN keywords ELSE generated.value.keywords]
                    @@ rebuilt.preview]
    IN  IF video_path = <<>>
        THEN Ended("invalid", <<Flash("error", "generated_video")>>, 0, f, fs)
        ELSE IF loaded.outcome # "bytes"
        THEN Ended("unloadable", <<Flash("error", "load_video")>>, 0, f, fs)
        ELSE IF needs_metadata /\ generated.raised # ""
        THEN Escaped(generated.raised, <<>>, 0, f, fs)
        ELSE IF client = "fails"
        THEN Ended("publish_failed", <<Flash("error", "publish")>>, 1, f, fs)
        ELSE Ended("published", <<Flash("success", "YouTube Short uploaded")>>, 1,
                   UpdateFile(f, product_id,
                       [form_values |-> form_values]
                       @@ preview
                       @@ [platforms |->
                             [youtube |-> [status |-> "published", video_id |-> "v1",
                                           use_affiliate_link |-> "false"]],
                           results |-> [youtube |-> "published"]]),
                   fs)

\* Lines 1363-1416.
PublishTiktokRecordsFailure(f, fs, raw, client) ==
    LET form_values == ExtractFormDefaults(raw)
        product_id == form_values["sku_or_url"]
        video_path == DictGet(raw, "generated_video_path", <<>>)
        loaded == LoadStoredMedia(fs, ParsePath(video_path))
    IN  IF video_path = <<>>
        THEN Ended("invalid", <<Flash("error", "generated_video")>>, 0, f, fs)
        ELSE IF loaded.outcome # "bytes"
        THEN Ended("unloadable", <<Flash("error", "load_video")>>, 0, f, fs)
        ELSE Ended(IF client = "fails" THEN "publish_failed" ELSE "published",
                   <<Flash("success", "TikTok video published")>>, 1,
                   UpdateFile(f, product_id, [form_values |-> form_values]),
                   fs)

PublishTiktok(f, fs, raw, client) ==
    LET form_values == ExtractFormDefaults(raw)
        product_id == form_values["sku_or_url"]
        video_path == DictGet(raw, "generated_video_path", <<>>)
        loaded == LoadStoredMedia(fs, ParsePath(video_path))
    IN  IF video_path = <<>>
        THEN Ended("invalid", <<Flash("error", "generated_video")>>, 0, f, fs)
        ELSE IF loaded.outcome # "bytes"
        THEN Ended("unloadable", <<Flash("error", "load_video")>>, 0, f, fs)
        ELSE IF client = "fails"
        THEN Ended("publish_failed", <<Flash("error", "publish")>>, 1, f, fs)
        ELSE Ended("published", <<Flash("success", "TikTok video published")>>, 1,
                   UpdateFile(f, product_id,
                       [form_values |-> form_values]
                       @@ RebuildPreviewPayload(fs, raw)
                       @@ [platforms |->
                             [tiktok |-> [status |-> "published",
                                          use_affiliate_link |-> "false"]],
                           results |-> [tiktok |-> "published"]]),
                   fs)

(***************************************************************************)
(* Routes: the publishing requests                                         *)
(***************************************************************************)
save_draft(raw, upload) ==
    /\ CanCall
    /\ LET ended == SaveDraft(file, files, raw, upload)
       IN  /\ file' = ended.file
           /\ files' = ended.files
           /\ op' = Requested("save_draft", raw["sku_or_url"],
                        [raw |-> raw, upload |-> upload], ended)
    /\ nops' = nops + 1
    /\ UNCHANGED <<req, media>>

With(raws, field, values) ==
    raws \cup {DictSet(raw, field, value) : raw \in raws, value \in values}

NextValidate ==
    \/ \E form \in Forms, form_path \in FormPaths, upload \in Uploads :
          \E run \in RunsFor(form, form_path, upload) :
              generate_pinterest(form, form_path, upload, run)
    \/ \E raw \in With(PublishForms(files), "title", {""}), upload \in Uploads :
          save_draft(raw, upload)

SpecValidate == InitRoutes /\ [][NextValidate]_vars

generate_instagram_image(raw, edit, saving) ==
    /\ CanCall
    /\ LET ended == GenerateInstagramImage(file, files, raw, edit, saving)
       IN  /\ file' = ended.file
           /\ files' = ended.files
           /\ op' = Requested("generate_instagram_image", raw["sku_or_url"],
                        Asked(raw, "uncalled", "nothing"), ended)
    /\ nops' = nops + 1
    /\ UNCHANGED <<req, media>>

publish_instagram(raw, client) ==
    /\ CanCall
    /\ LET ended == PublishInstagram(file, files, raw, client)
       IN  /\ file' = ended.file
           /\ files' = ended.files
           /\ op' = Requested("publish_instagram", raw["sku_or_url"],
                        Asked(raw, Reached(ended, client), ended.sent), ended)
    /\ nops' = nops + 1
    /\ UNCHANGED <<req, media>>

publish_website(raw, client) ==
    /\ CanCall
    /\ LET ended == PublishWebsite(file, files, raw, client)
       IN  /\ file' = ended.file
           /\ files' = ended.files
           /\ op' = Requested("publish_website", raw["sku_or_url"],
                        Asked(raw, Reached(ended, client),
                              IF ended.client_calls = 0 THEN "nothing" ELSE "product"),
                        ended)
    /\ nops' = nops + 1
    /\ UNCHANGED <<req, media>>

generate_platform_video(platform, raw, video, saving) ==
    /\ CanCall
    /\ LET ended == GeneratePlatformVideo(file, files, platform, raw, video, saving)
       IN  /\ file' = ended.file
           /\ files' = ended.files
           /\ op' = Requested("generate_platform_video", raw["sku_or_url"],
                        Asked(DictSet(raw, "platform", platform), "uncalled", "nothing"), ended)
    /\ nops' = nops + 1
    /\ UNCHANGED <<req, media>>

publish_youtube(raw, metadata, client) ==
    /\ CanCall
    /\ LET ended == PublishYoutube(file, files, raw, metadata, client)
       IN  /\ file' = ended.file
           /\ files' = ended.files
           /\ op' = Requested("publish_youtube", raw["sku_or_url"],
                        Asked(raw, Reached(ended, client),
                              IF ended.client_calls = 0 THEN "nothing" ELSE "video"),
                        ended)
    /\ nops' = nops + 1
    /\ UNCHANGED <<req, media>>

publish_tiktok(raw, client) ==
    /\ CanCall
    /\ LET ended == PublishTiktok(file, files, raw, client)
       IN  /\ file' = ended.file
           /\ files' = ended.files
           /\ op' = Requested("publish_tiktok", raw["sku_or_url"],
                        Asked(raw, Reached(ended, client),
                              IF ended.client_calls = 0 THEN "nothing" ELSE "video"),
                        ended)
    /\ nops' = nops + 1
    /\ UNCHANGED <<req, media>>

\* What the form fields that choose a channel can hold.
Targets == {"feed", "story", "Story", "reel", ""}
InstagramVariants == {"feed", "story", "Story"}
VideoPlatforms == {"youtube", "tiktok", "YouTube", "vimeo"}
SubmittedDurations == {<<>>, <<"9", "9">>, <<"i", "n", "f">>}

\* What the publishing helpers give back to the routes: a result, None (the
\* Pinterest helper without a token, the WooCommerce helper without
\* credentials or on a refusal), or an exception.
PublishOutcomes == {"published", "fails"}
WebsiteOutcomes == {"published", "none", "fails"}

\* The requests arrive on a fresh installation, after a preview generation
\* for the first product, or after a video generation on top of it.
EarlierVideo ==
    GeneratePlatformVideo(EarlierGeneration.file, EarlierGeneration.files, "youtube",
        ConfirmForm("sku1") @@ PathFields(EarlierGeneration.files, "stored"), "ok", "ok")

InitPublish ==
    /\ \E earlier \in {Ended("none", <<>>, 0, Absent, OutsideFiles), EarlierGeneration,
                        EarlierVideo} :
          /\ file = earlier.file
          /\ files = earlier.files
    /\ op = NoOp
    /\ nops = 0
    /\ req = [r \in Requests |-> Idle]
    /\ media = NoCall(Rel(<<>>))

\* One request is followed from each starting state.
FirstRequest == op = NoOp

NextPublish ==
    \/ /\ FirstRequest
       /\ \E raw \in PublishForms(files), client \in ClientOutcomes :
             confirm_pinterest(raw, client)
    \/ /\ FirstRequest
       /\ \E raw \in With(PublishForms(files), "instagram_variant", InstagramVariants),
              edit \in StepOutcomes, saving \in StepOutcomes :
             generate_instagram_image(raw, edit, saving)
    \/ /\ FirstRequest
       /\ \E raw \in With(PublishForms(files), "target", Targets),
              client \in PublishOutcomes :
             publish_instagram(raw, client)
    \/ /\ FirstRequest
       /\ \E raw \in With(PublishForms(files), "price", {"9"}),
              client \in WebsiteOutcomes :
             publish_website(raw, client)
    \/ /\ FirstRequest
       /\ \E platform \in VideoPlatforms,
              raw \in With(PublishForms(files), "video_duration_seconds",
                           SubmittedDurations),
              video \in StepOutcomes, saving \in StepOutcomes :
             generate_platform_video(platform, raw, video, saving)
    \/ /\ FirstRequest
       /\ \E raw \in With(PublishForms(files), "youtube_keywords_payload", {"items"}),
              metadata \in JsonOutcomes, client \in PublishOutcomes :
             publish_youtube(raw, metadata, client)
    \/ /\ FirstRequest
       /\ \E raw \in PublishForms(files), client \in PublishOutcomes :
             publish_tiktok(raw, client)

SpecPublish == InitPublish /\ [][NextPublish]_vars

(***************************************************************************)
(* Views of the persisted document                                         *)
(***************************************************************************)
Products(f) == LoadAppState(f).products
LastProductId(f) == LoadAppState(f).last_product_id
Entry(f, pid) == GetProductState(f, pid)
Part(f, pid, key) == DictGet(Entry(f, pid), key, EmptyDict)

(***************************************************************************)
(* Claims about the state store                                            *)
(***************************************************************************)

\* C1: in every reachable state last_product_id is the empty string or a key
\* present in products.
C1_LastProductIdValid ==
    LastProductId(file) = "" \/ LastProductId(file) \in DOMAIN Products(file)

\* C1 witness: a pinterest reset removed the product last_product_id pointed
\* to while another product is still stored.
C1_Witness ==
    /\ op.kind = "reset" /\ op.platform = "pinterest" /\ op.changed
    /\ LastProductId(file) = ""
    /\ DOMAIN Products(file) # {}

\* C2: after reset_platform(p, "pinterest") the entry of p is absent, and
\* last_product_id is empty if it equalled p before the call.
C2_PinterestResetDeletes ==
    [][(op'.kind = "reset" /\ op'.platform = "pinterest") =>
          /\ Entry(file', op'.pid) = EmptyDict
          /\ op'.pid \notin DOMAIN Products(file')
          /\ (LastProductId(file) = op'.pid => LastProductId(file') = "")]_vars

\* C2 witness: a pinterest reset removed an entry that held data, the pointer
\* is cleared.
C2_Witness ==
    /\ op.kind = "reset" /\ op.platform = "pinterest" /\ op.changed
    /\ op.pid \in ProductIds
    /\ op.pid \notin DOMAIN Products(file)
    /\ LastProductId(file) = ""
    /\ nops = MaxOps

\* The preview fields the routes write, by the platform their name is prefixed
\* with (src/app.py lines 497-565 and 795-836).
InstagramPrefixed ==
    {"instagram_caption", "instagram_hashtags", "instagram_hashtags_payload",
     "instagram_image_path", "instagram_image_url", "instagram_image_public_url",
     "instagram_image_data"}
YoutubePrefixed ==
    {"youtube_title", "youtube_description", "youtube_keywords",
     "youtube_keywords_payload", "youtube_boost_prompt"}
TiktokPrefixed == {"tiktok_caption", "tiktok_hashtags", "tiktok_hashtags_payload"}

PrefixedBy(platform) ==
    CASE platform = "instagram" -> InstagramPrefixed
      [] platform = "youtube" -> YoutubePrefixed
      [] platform = "tiktok" -> TiktokPrefixed
      [] OTHER -> {}

\* The platform channels that belong to a resettable platform.
ChannelsOf(platform) ==
    IF platform = "instagram" THEN {"instagram_feed", "instagram_story"} ELSE {platform}

\* Dicts a and b agree on every key outside `except`.
SameOutside(a, b, except) ==
    /\ DOMAIN a \ except = DOMAIN b \ except
    /\ \A k \in DOMAIN a \ except : a[k] = b[k]

\* C3: reset_platform(p, x), x one of instagram, youtube, tiktok, leaves alone
\* the other platforms' snapshots and results, form_values, the assets other
\* than the Instagram image pointer, the preview fields not prefixed by x,
\* every other product's entry and last_product_id.
C3_ResetFrame ==
    [][(op'.kind = "reset" /\ op'.platform \in {"instagram", "youtube", "tiktok"}) =>
          LET p == op'.pid
              x == op'.platform
          IN  /\ LastProductId(file') = LastProductId(file)
              /\ DOMAIN Products(file') = DOMAIN Products(file)
              /\ \A q \in ProductIds \ {p} : Entry(file', q) = Entry(file, q)
              /\ ("form_values" \in DOMAIN Entry(file', p))
                    = ("form_values" \in DOMAIN Entry(file, p))
              /\ Part(file', p, "form_values") = Part(file, p, "form_values")
              /\ SameOutside(Part(file, p, "platforms"), Part(file', p, "platforms"),
                             ChannelsOf(x))
              /\ SameOutside(Part(file, p, "results"), Part(file', p, "results"),
                             ChannelsOf(x) \cup {x})
              /\ SameOutside(Part(file, p, "assets"), Part(file', p, "assets"),
                             {"instagram_image_path"})
              /\ SameOutside(Part(file, p, "preview"), Part(file', p, "preview"),
                             PrefixedBy(x))]_vars

\* C3 witness: a youtube reset removed something from an entry that still has
\* its tiktok snapshot, tiktok result, tiktok preview field and form_values,
\* after it ran.
C3_Witness ==
    /\ op.kind = "reset" /\ op.platform = "youtube" /\ op.changed
    /\ "tiktok" \in DOMAIN Part(file, op.pid, "platforms")
    /\ "tiktok" \in DOMAIN Part(file, op.pid, "results")
    /\ "tiktok_caption" \in DOMAIN Part(file, op.pid, "preview")
    /\ "instagram_image_path" \in DOMAIN Part(file, op.pid, "assets")
    /\ "form_values" \in DOMAIN Entry(file, op.pid)

\* C4: reset_platform(p, "instagram") on an entry with
\* assets.original_image_path keeps that path and leaves no instagram_feed or
\* instagram_story snapshot, no instagram_* preview field and no
\* assets.instagram_image_path.
C4_InstagramReset ==
    [][(/\ op'.kind = "reset" /\ op'.platform = "instagram"
        /\ "original_image_path" \in DOMAIN Part(file, op'.pid, "assets")) =>
          LET p == op'.pid
          IN  /\ "original_image_path" \in DOMAIN Part(file', p, "assets")
              /\ Part(file', p, "assets")["original_image_path"]
                    = Part(file, p, "assets")["original_image_path"]
              /\ DOMAIN Part(file', p, "platforms")
                    \cap {"instagram_feed", "instagram_story"} = {}
              /\ DOMAIN Part(file', p, "preview") \cap InstagramPrefixed = {}
              /\ "instagram_image_path" \notin DOMAIN Part(file', p, "assets")]_vars

\* C4 witness: an instagram reset changed an entry that keeps its original
\* image path and a non-empty preview.
C4_Witness ==
    /\ op.kind = "reset" /\ op.platform = "instagram" /\ op.changed
    /\ "original_image_path" \in DOMAIN Part(file, op.pid, "assets")
    /\ DOMAIN Part(file, op.pid, "preview") # {}
    /\ DOMAIN Part(file, op.pid, "platforms") # {}

\* C5: upsert_entry merges platforms per platform name: a named platform's
\* snapshot keeps every old key the update does not mention with its old value
\* and holds every key of the update with the new value; platforms not named
\* keep their snapshot.
C5_PlatformsMerge ==
    [][(/\ op'.kind = "update" /\ op'.pid # ""
        /\ "platforms" \in DOMAIN op'.payload) =>
          LET old == Part(file, op'.pid, "platforms")
              new == Part(file', op'.pid, "platforms")
              upd == op'.payload["platforms"]
          IN  /\ DOMAIN new = DOMAIN old \cup DOMAIN upd
              /\ \A name \in DOMAIN upd :
                    /\ \A k \in DOMAIN upd[name] : new[name][k] = upd[name][k]
                    /\ name \in DOMAIN old =>
                          \A k \in DOMAIN old[name] \ DOMAIN upd[name] :
                              /\ k \in DOMAIN new[name]
                              /\ new[name][k] = old[name][k]
                    /\ DOMAIN new[name]
                          = DOMAIN upd[name] \cup DOMAIN DictGet(old, name, EmptyDict)
              /\ \A name \in DOMAIN old \ DOMAIN upd : new[name] = old[name]]_vars

\* C5 witness: the example of the specification: {status: pending,
\* video_path: a} upserted with {status: published}.
C5_Witness ==
    /\ op.kind = "update" /\ op.pid \in ProductIds
    /\ "platforms" \in DOMAIN op.payload
    /\ "tiktok" \in DOMAIN op.payload["platforms"]
    /\ op.payload["platforms"]["tiktok"] = [status |-> "published"]
    /\ Part(file, op.pid, "platforms")["tiktok"]
          = [status |-> "published", video_path |-> "a"]

\* C6: upsert_entry is idempotent: an update called a second time in
\* succession with the same product id and payload leaves the stored state as
\* the first call left it.
C6_UpsertIdempotent ==
    (op.kind = "update" /\ op.repeat) => ~op.changed

\* C6 witness: an update giving all five fields with data was repeated on top
\* of an entry that an earlier, different call had created.
C6_Witness ==
    /\ op.kind = "update" /\ op.repeat /\ op.pid \in ProductIds
    /\ DOMAIN op.payload = PayloadFields
    /\ op.payload["form_values"] # EmptyDict
    /\ nops = MaxOps
    /\ Part(file, op.pid, "platforms")["tiktok"]
          = [status |-> "published", video_path |-> "a"]

\* C7: no product's persisted preview holds image_data or
\* instagram_image_data, whatever previews the callers passed.
C7_NoBinaryInPreview ==
    \A p \in DOMAIN Products(file) :
        DOMAIN Part(file, p, "preview") \cap {"image_data", "instagram_image_data"} = {}

\* C7 witness: the last call passed a preview carrying both binary fields and
\* the rest of that preview is stored.
C7_Witness ==
    /\ op.kind = "update" /\ op.pid \in ProductIds
    /\ "preview" \in DOMAIN op.payload
    /\ {"image_data", "instagram_image_data"} \subseteq DOMAIN op.payload["preview"]
    /\ "generated_image_path" \in DOMAIN Part(file, op.pid, "preview")

\* C9: an entry that exists stays in products through every serially executed
\* operation except reset_platform(p, "pinterest") on that product.
C9_EntryPersists ==
    [][\A p \in ProductIds :
          (/\ p \in DOMAIN Products(file)
           /\ ~(op'.kind = "reset" /\ op'.platform = "pinterest" /\ op'.pid = p))
          => p \in DOMAIN Products(file')]_vars

\* C9 witness: a pinterest reset removed one product while the other
\* product's entry is still there.
C9_Witness ==
    /\ op.kind = "reset" /\ op.platform = "pinterest" /\ op.changed
    /\ \E q \in ProductIds \ {op.pid} : q \in DOMAIN Products(file)
    /\ LastProductId(file) # ""

(***************************************************************************)
(* Claims about concurrent requests                                        *)
(***************************************************************************)
BothDone ==
    /\ \A r \in Requests : req[r].pc = "done" /\ req[r].pid \in ProductIds
    /\ file.kind = "object"

\* The two documents a serial execution of the two calls, in either order,
\* would leave when started from the snapshot `base`.
SerialOutcomes(base) ==
    {UpdateDoc(UpdateDoc(base, req[a].pid, req[a].payload), req[b].pid, req[b].payload) :
        <<a, b>> \in {<<"r1", "r2">>, <<"r2", "r1">>}}

\* C8: the load-merge-save cycle is unprotected and the last writer wins:
\* when two update calls have both completed, the file is exactly the
\* document one of them computed from the snapshot it had loaded, whatever
\* the other one wrote in between.
C8_LastWriterWins ==
    BothDone =>
        \E w \in Requests :
            file.data = UpdateDoc(req[w].doc, req[w].pid, req[w].payload)

\* C8 witness: both calls loaded the same snapshot, both completed without
\* error, and the file is neither serial outcome: one update is lost.
C8_Witness ==
    /\ BothDone
    /\ req["r1"].doc = req["r2"].doc
    /\ file.data \notin SerialOutcomes(req["r1"].doc)

(***************************************************************************)
(* Claims about the Media Store                                            *)
(***************************************************************************)
\* The location lies inside the storage root: the root's components are the
\* first components of the target.
InsideRoot(target) == IsPrefix(Resolve(STORAGE_ROOT), target)

\* C10: for every relative path that resolves outside the storage root, load
\* fails with the invalid-path error and resolve_absolute returns null, also
\* when the outside location's text merely begins with the root's text.
C10_OutsideNeverYielded ==
    (media.call \in {"load", "resolve"}
        /\ ~(media.path.parts = <<>> /\ ~media.path.absolute)
        /\ ~InsideRoot(Resolve(Join(STORAGE_ROOT, media.path)))) =>
            /\ media.call = "load" => media.outcome = "invalid_path"
            /\ media.call = "resolve" => media.outcome = "none"

\* C11: loading a path that a store returned gives exactly the bytes that
\* store was given, whichever category it was stored under and however many
\* stores were made afterwards.
C11_StoreLoadRoundTrip ==
    (media.call = "load" /\ media.path \in DOMAIN media.stored)
        => /\ media.outcome = "bytes"
           /\ media.data = media.stored[media.path]

\* A file stored first is loaded back after a second store of other bytes.
C11_Witness ==
    /\ media.call = "load"
    /\ media.outcome = "bytes"
    /\ Cardinality(DOMAIN media.stored) = 2
    /\ media.path \in DOMAIN media.stored
    /\ \E other \in DOMAIN media.stored :
          /\ other # media.path
          /\ media.stored[other] # media.data

\* The cases the claim lists: every content of the state file other than a
\* JSON object with both top-level keys.
Degraded(f) ==
    \/ f.kind # "object"
    \/ ~({"products", "last_product_id"} \subseteq DOMAIN f.data)

\* C12: load never raises, and returns the fresh empty state whenever the
\* file is absent, unreadable, undecodable, not JSON, not a JSON object, or
\* an object missing a top-level key.
C12_LoadNeverRaises ==
    op.kind = "load" =>
        /\ op.result.outcome = "returned"
        /\ Degraded(file) => op.result.state = EmptyAppState

\* The stored value of a replaced field is the same before and after a step:
\* absent in both, or present in both with equal values.
SameField(old, new, field) ==
    /\ (field \in DOMAIN new) = (field \in DOMAIN old)
    /\ field \in DOMAIN old => new[field] = old[field]

WithoutBinary(preview) ==
    [k \in DOMAIN preview \ PREVIEW_BINARY_FIELDS |-> preview[k]]

\* C13: upsert_entry replaces form_values and preview wholesale: a provided
\* form_values is stored exactly as given, a provided preview exactly as given
\* minus its binary fields, with no key of the previous value kept; a field
\* the call does not provide keeps its stored value.
C13_ReplacedWholesale ==
    [][(op'.kind = "update" /\ op'.pid # "") =>
          LET old == Entry(file, op'.pid)
              new == Entry(file', op'.pid)
              given == op'.payload
          IN  /\ IF "form_values" \in DOMAIN given
                 THEN /\ "form_values" \in DOMAIN new
                      /\ new["form_values"] = given["form_values"]
                 ELSE SameField(old, new, "form_values")
              /\ IF "preview" \in DOMAIN given
                 THEN /\ "preview" \in DOMAIN new
                      /\ new["preview"] = WithoutBinary(given["preview"])
                 ELSE SameField(old, new, "preview")]_vars

\* C13 witness: a call giving form_values alone, with fewer keys than other
\* calls store, rewrote an entry whose preview an earlier call had stored.
C13_Witness ==
    /\ op.kind = "update" /\ op.pid \in ProductIds /\ op.changed
    /\ DOMAIN op.payload = {"form_values"}
    /\ Entry(file, op.pid)["form_values"] = [title |-> "a"]
    /\ "preview" \in DOMAIN Entry(file, op.pid)
    /\ "title" \in DOMAIN Entry(file, op.pid)["preview"]

\* C14: upsert_entry shallow-merges assets and results: every key of the
\* update holds the new value afterwards, every stored key the update does not
\* name keeps its value, and no update step removes a key from either.
C14_ShallowMerge ==
    [][(op'.kind = "update" /\ op'.pid # "") =>
          \A field \in {"assets", "results"} :
              LET old == Part(file, op'.pid, field)
                  new == Part(file', op'.pid, field)
                  upd == DictGet(op'.payload, field, EmptyDict)
              IN  /\ \A k \in DOMAIN upd : k \in DOMAIN new /\ new[k] = upd[k]
                  /\ \A k \in DOMAIN old \ DOMAIN upd :
                        k \in DOMAIN new /\ new[k] = old[k]
                  /\ DOMAIN old \subseteq DOMAIN new]_vars

\* C14 witness: assets stored by a generation call were merged with the
\* assets of a publishing call: one key overwritten, one added, one kept.
C14_Witness ==
    /\ op.kind = "update" /\ op.pid \in ProductIds
    /\ "assets" \in DOMAIN op.payload
    /\ op.payload["assets"] = [instagram_image_path |-> "i2", generated_video_path |-> "v1"]
    /\ Part(file, op.pid, "assets")
          = [original_image_path |-> "o1", generated_image_path |-> "g1",
             instagram_image_path |-> "i2", generated_video_path |-> "v1"]

\* The state file holds a document with an entry for pid and the pointer on it.
PersistedFor(pid) ==
    /\ file.kind = "object"
    /\ pid \in DOMAIN file.data.products
    /\ file.data.last_product_id = pid

\* C15: every call of upsert_entry, for every product id and whichever fields
\* it provides, ends with last_product_id equal to that id and with the
\* persisted state holding an entry for it.
C15_UpsertAlwaysPersists ==
    op.kind = "update" => PersistedFor(op.pid)

\* C15 as the code has it: every call of upsert_entry with a non-empty product
\* id ends with last_product_id equal to that id and with the persisted state
\* holding an entry for it; a call with the empty id returns before the load
\* and writes nothing.
C15_UpsertPersistsNonEmptyId ==
    /\ (op.kind = "update" /\ op.pid # "") => PersistedFor(op.pid)
    /\ (op.kind = "update" /\ op.pid = "") => ~op.changed

\* C15 witness: a call providing no field moved the pointer to its id while
\* the other product's entry is stored too.
C15_Witness ==
    /\ op.kind = "update" /\ op.pid = "sku2"
    /\ op.payload = EmptyDict
    /\ PersistedFor("sku2")
    /\ "sku1" \in DOMAIN Products(file)
    /\ DOMAIN Part(file, "sku2", "assets") # {}

\* The entry of pid holds no snapshot for the platform (for instagram:
\* neither of its two channels).
NoSnapshot(f, pid, platform) ==
    ChannelsOf(platform) \cap DOMAIN Part(f, pid, "platforms") = {}

C17_VideoResetClears ==
    (op.kind = "reset" /\ op.platform \in {"youtube", "tiktok"} /\ op.pid # "") =>
        /\ op.platform \notin DOMAIN Part(file, op.pid, "platforms")
        /\ op.platform \notin DOMAIN Part(file, op.pid, "results")
        /\ DOMAIN Part(file, op.pid, "preview") \cap PrefixedBy(op.platform) = {}

(***************************************************************************)
(* Claims about the routes                                                 *)
(***************************************************************************)
ErrorFlashes(flashes) == SelectSeq(flashes, LAMBDA flash : flash.category = "error")

\* The Media Store holds no file for the text: it is empty, it names a
\* location outside the storage root, or no file is there.
NotInStore(fs, text) ==
    \/ text = <<>>
    \/ LET target == Resolve(Join(STORAGE_ROOT, ParsePath(text)))
       IN  ~InsideRoot(target) \/ target \notin DOMAIN fs

\* C18: a confirm-publish request whose generated_image_path is missing,
\* empty or not loadable from the Media Store ends with an error message,
\* makes no call to the Pinterest client and leaves the persisted state
\* unchanged.
C18_ConfirmNeedsStoredImage ==
    (/\ op.kind = "confirm_pinterest"
     /\ NotInStore(files, DictGet(op.inputs.raw, "generated_image_path", <<>>))) =>
        /\ Len(ErrorFlashes(op.flashes)) = 1
        /\ op.client_calls = 0
        /\ ~op.changed

RequiredGiven(form) == \A i \in 1..Len(REQUIRED_FIELDS) : form[REQUIRED_FIELDS[i]] # ""

ValidUpload(upload) == upload.present /\ AllowedFile(upload.suffix) /\ upload.bytes # ""

\* C19: when generate_pinterest is submitted with non-empty sku_or_url, title,
\* market and affiliate link and a valid uploaded image, and preview generation
\* succeeds, the persisted state holds products[sku_or_url] with
\* platforms.pinterest.status "pending" and assets.original_image_path a path
\* that resolves inside the Media Store, and last_product_id is that id.
C19_GeneratePersistsPending ==
    (/\ op.kind = "generate_pinterest"
     /\ RequiredGiven(op.inputs.form)
     /\ ValidUpload(op.inputs.upload)
     /\ op.stage = "generated") =>
        LET product_id == op.inputs.form["sku_or_url"]
            original == Part(file, product_id, "assets")["original_image_path"]
            resolved == ResolveStoragePath(files, ParsePath(original))
        IN  /\ file.kind = "object"
            /\ product_id \in DOMAIN file.data.products
            /\ Part(file, product_id, "platforms")["pinterest"]["status"] = "pending"
            /\ resolved.outcome = "path"
            /\ InsideRoot(resolved.target)
            /\ resolved.target \in DOMAIN files
            /\ files[resolved.target] = op.inputs.upload.bytes
            /\ file.data.last_product_id = product_id

\* C19 witness: a preview was generated for the second product from an
\* uploaded image while the first product's entry, from an earlier generation,
\* is stored too; the request also carried a stale original_image_path.
C19_Witness ==
    /\ op.kind = "generate_pinterest" /\ op.stage = "generated"
    /\ op.pid = "sku2"
    /\ ValidUpload(op.inputs.upload)
    /\ op.inputs.form_path # <<>>
    /\ DOMAIN Products(file) = {"sku1", "sku2"}
    /\ LastProductId(file) = "sku2"

\* The value the stored preview holds for a step of the run.
StoredFor(preview, step) ==
    CASE step = "tags" -> preview["tags"]
      [] step = "instagram_caption" -> preview["instagram_caption"]
      [] step = "instagram_hashtags" -> preview["instagram_hashtags"]
      [] step = "tiktok_caption" -> preview["tiktok_caption"]
      [] step = "tiktok_hashtags" -> preview["tiktok_hashtags"]
      [] step = "youtube_metadata" -> preview["youtube_keywords"]
      [] step = "title" -> preview["title"]
      [] OTHER -> preview["description"]

Generators == DOMAIN GoodRun \ {"edit_image", "save_generated_image"}

\* C20: after validation, preview generation aborts, with a single error and
\* no state write, exactly when the image-edit step or the image storage step
\* fails; a failure, empty, placeholder or malformed result of a text, tag,
\* caption, hashtag or YouTube-metadata generator never aborts it and never
\* reaches the preview: the fallback is stored in its place.
C20_OnlyImageStepsAbort ==
    (op.kind = "generate_pinterest" /\ op.stage \in {"aborted", "generated"}) =>
        LET run == op.inputs.run
            preview == Part(file, op.pid, "preview")
        IN  /\ (op.stage = "aborted")
                  = (run["edit_image"] = "fails" \/ run["save_generated_image"] = "fails")
            /\ op.stage = "aborted" =>
                  Len(op.flashes) = 1 /\ Len(ErrorFlashes(op.flashes)) = 1 /\ ~op.changed
            /\ op.stage = "generated" =>
                  \A step \in Generators :
                      run[step] # GoodRun[step] =>
                          StoredFor(preview, step) \notin {"generated", "items", "keys",
                                                           "characters", "Unknown Concept"}

(***************************************************************************)
(* Claims about the platform clients                                       *)
(***************************************************************************)
\* The provider did not accept the call: no response, an error status, or,
\* for WooCommerce, any status but 201.
Refused(client, response) ==
    \/ response.status = 0
    \/ response.status >= 400
    \/ client = "woocommerce" /\ response.status # 201

\* The calls that publish, as opposed to those that fetch a token, look up
\* the default board or upload the image to WordPress beforehand.
PublishCalls == {"pins", "media", "media_publish", "init", "upload", "publish", "products"}

Positions(calls, name) == {i \in 1..Len(calls) : calls[i].name = name}

\* The attempt a call of publish_short_video belongs to: the number of init
\* calls issued up to it.
AttemptOf(calls, i) == Cardinality({j \in 1..i : calls[j].name = "init"})

EndsInError(i) == i = Len(op.calls) /\ op.outcome \in {"raised", "none"}

C29_AtMostOneRefresh ==
    (op.kind = "client" /\ op.client = "youtube") =>
        /\ op.outcome \in {"returned", "raised"}
        /\ Cardinality(Positions(op.calls, "upload")) <= 2
        /\ Cardinality(Positions(op.calls, "init")) <= 2
        /\ Cardinality(Positions(op.calls, "token")) <= 1
        /\ \A i \in 1..Len(op.calls) :
              (/\ op.calls[i].name \in {"init", "upload"}
               /\ op.calls[i].response.status >= 400
               /\ AttemptOf(op.calls, i) = 2) =>
                  i = Len(op.calls) /\ op.raised = "HTTPError"

\* C29 amended: publish_short_video ends, returning or raising, after at
\* most two init calls, two uploads and two token refreshes: one refresh
\* when no access token is stored, and one after a 401 at the init or upload
\* step of the first attempt. That refresh is the next call; when it yields
\* a token the upload restarts from init with that token, and when it does
\* not the error is raised. Any error status on the second attempt, 401
\* included, is raised to the caller.
C29_AtMostTwoRefreshes ==
    (op.kind = "client" /\ op.client = "youtube") =>
        LET calls == op.calls
            after401 == {i \in Positions(calls, "token") :
                            i > 1 /\ calls[i - 1].response.status = 401}
        IN  /\ op.outcome \in {"returned", "raised"}
            /\ Cardinality(Positions(calls, "upload")) <= 2
            /\ Cardinality(Positions(calls, "init")) <= 2
            /\ Cardinality(Positions(calls, "token")) <= 2
            /\ Cardinality(after401) <= 1
            /\ Positions(calls, "token") \ after401 # {} => op.stored_token = ""
            /\ \A i \in 1..Len(calls) :
                  (/\ calls[i].name \in {"init", "upload"}
                   /\ calls[i].response.status = 401
                   /\ AttemptOf(calls, i) = 1) =>
                      \/ i = Len(calls) /\ op.raised = "RuntimeError"
                      \/ /\ i < Len(calls)
                         /\ calls[i + 1].name = "token"
                         /\ IF DictGet(calls[i + 1].response.body, "access_token", "") # ""
                            THEN /\ i + 2 <= Len(calls)
                                 /\ calls[i + 2].name = "init"
                                 /\ calls[i + 2].carries
                                       = calls[i + 1].response.body["access_token"]
                                 /\ op.token_file = calls[i + 2].carries
                            ELSE i + 1 = Len(calls) /\ op.outcome = "raised"
            /\ \A i \in 1..Len(calls) :
                  (/\ calls[i].name \in {"init", "upload"}
                   /\ calls[i].response.status >= 400
                   /\ AttemptOf(calls, i) = 2) =>
                      i = Len(calls) /\ op.raised = "HTTPError"

\* C29 witness: no token was stored, the token fetched first was answered
\* 401 at init, the second token was accepted at init and answered 401 at
\* the upload, which was raised.
C29_Witness ==
    /\ op.kind = "client" /\ op.client = "youtube"
    /\ op.stored_token = ""
    /\ Cardinality(Positions(op.calls, "token")) = 2
    /\ Cardinality(Positions(op.calls, "upload")) = 1
    /\ op.calls[Len(op.calls)].name = "upload"
    /\ op.calls[Len(op.calls)].response.status = 401
    /\ op.raised = "HTTPError"

\* C30: publish_tiktok_post issues its calls in the order init, upload,
\* publish: the upload is sent, to the upload_url init returned, only after
\* init succeeded and returned both upload_url and publish_id; the publish
\* is sent only after the upload succeeded and carries the publish_id init
\* returned; a failure at any step raises without issuing a later step.
C30_TiktokOrder ==
    (op.kind = "client" /\ op.client = "tiktok") =>
        LET calls == op.calls
            order == <<"init", "upload", "publish">>
            answered == calls[1].response
        IN  /\ Len(calls) <= 3
            /\ \A i \in 1..Len(calls) : calls[i].name = order[i]
            /\ Len(calls) >= 2 =>
                  /\ ~Refused(op.client, answered) /\ answered.json
                  /\ DictGet(answered.body, "upload_url", "") # ""
                  /\ DictGet(answered.body, "publish_id", "") # ""
                  /\ calls[2].carries = answered.body["upload_url"]
            /\ Len(calls) = 3 =>
                  /\ ~Refused(op.client, calls[2].response)
                  /\ calls[3].carries = answered.body["publish_id"]
            /\ \A i \in 1..Len(calls) :
                  Refused(op.client, calls[i].response) =>
                      i = Len(calls) /\ op.outcome = "raised"
            /\ op.outcome = "returned" => Len(calls) = 3
            /\ op.outcome \in {"returned", "raised"}

\* C30 witness: all three calls were issued and the publish carried the
\* second publish_id.
C30_Witness ==
    /\ op.kind = "client" /\ op.client = "tiktok"
    /\ Len(op.calls) = 3
    /\ op.calls[3].carries = "p2"
    /\ op.outcome = "returned"

(***************************************************************************)
(* Claims about the video duration                                         *)
(***************************************************************************)
\* C24: for every submitted video_duration_seconds the duration passed to
\* the video generator is an integer in [4, 60]; a missing or unparsable
\* value yields the default 8.
C24_DurationClamped ==
    op.kind = "duration" =>
        /\ op.raised = ""
        /\ op.passed \in VIDEO_DURATION_MIN..VIDEO_DURATION_MAX
        /\ (op.text = <<>> \/ ParseFloat(op.text).kind = "invalid") =>
              op.passed = VIDEO_DURATION_DEFAULT

(***************************************************************************)
(* Claims about validation in generate_pinterest and save_draft            *)
(***************************************************************************)
\* The checks each of the two routes makes on its own form and upload, read
\* from the request as it was submitted and the state it arrived in.
RefusedUpload(upload) ==
    upload.present /\ (~AllowedFile(upload.suffix) \/ upload.bytes = "")

FailsValidation(request, f) ==
    IF request.kind = "generate_pinterest"
    THEN \/ \E i \in 1..Len(REQUIRED_FIELDS) :
              DictGet(request.inputs.form, REQUIRED_FIELDS[i], "") = ""
         \/ /\ ~request.inputs.upload.present
            /\ request.inputs.form_path = <<>>
            /\ DictGet(DictGet(GetProductState(f, request.pid), "assets", EmptyDict),
                       "original_image_path", <<>>) = <<>>
         \/ RefusedUpload(request.inputs.upload)
    ELSE /\ request.kind = "save_draft"
         /\ \/ DictGet(request.inputs.raw, "sku_or_url", "") = ""
            \/ RefusedUpload(request.inputs.upload)

PublishRoutes ==
    {"confirm_pinterest", "publish_instagram", "publish_youtube", "publish_tiktok",
     "publish_website"}

GenerateRoutes == {"generate_instagram_image", "generate_platform_video"}

\* C22: no route lets a failure escape as an unhandled exception: for every
\* outcome of its external calls and of its store writes, a request for a
\* supported platform ends with a flash message and a re-rendered page.
C22_NoFailureEscapes ==
    (op.kind \in PublishRoutes \cup GenerateRoutes /\ op.stage # "not_found") =>
        /\ op.stage # "escaped"
        /\ Len(op.flashes) >= 1

PlatformKeys ==
    {"pinterest", "instagram_feed", "instagram_story", "youtube", "tiktok", "website"}

\* C25: in every state reachable through the routes every key of a
\* product's platforms map is one of pinterest, instagram_feed,
\* instagram_story, youtube, tiktok, website, and every snapshot's status is
\* pending or published, whatever target, variant or platform the form held.
C25_KnownPlatformKeys ==
    \A pid \in DOMAIN Products(file) :
        LET platforms == Part(file, pid, "platforms")
        IN  \A channel \in DOMAIN platforms :
                /\ channel \in PlatformKeys
                /\ DictGet(platforms[channel], "status", "") \in {"pending", "published"}

\* C26: when the platform client call of a publish route raises or returns
\* no result, the persisted state after the request is identical to the
\* state before it.
C26_FailedPublishWritesNothing ==
    [][(op'.kind \in PublishRoutes /\ op'.inputs.client \in {"fails", "none"}) =>
          /\ op'.client_calls = 1
          /\ op'.stage # "published"
          /\ file' = file
          /\ files' = files]_vars

\* C26 witness: the WooCommerce client was called for a stored product and
\* returned no permalink; the state file is as it was.
C26_Witness ==
    /\ op.kind = "publish_website"
    /\ op.inputs.client = "none"
    /\ op.client_calls = 1
    /\ op.pid \in DOMAIN Products(file)
    /\ ~op.changed

IsPublished(f, pid, channel) ==
    /\ pid \in DOMAIN Products(f)
    /\ channel \in DOMAIN Part(f, pid, "platforms")
    /\ DictGet(Part(f, pid, "platforms")[channel], "status", "") = "published"

\* The channel for which the provider accepted a publish request, if any.
AcceptedChannel(request) ==
    IF request.inputs.client # "published" THEN "none"
    ELSE CASE request.kind = "confirm_pinterest" -> "pinterest"
           [] request.kind = "publish_instagram" /\ request.inputs.sent = "story" ->
                "instagram_story"
           [] request.kind = "publish_instagram" /\ request.inputs.sent = "feed" ->
                "instagram_feed"
           [] request.kind = "publish_youtube" -> "youtube"
           [] request.kind = "publish_tiktok" -> "tiktok"
           [] request.kind = "publish_website" -> "website"
           [] OTHER -> "none"

\* C27: a channel of a product becomes published only if the provider
\* accepted a publish request for that same channel and product: Pinterest
\* is not marked published when the client skipped the upload, and
\* instagram_story / instagram_feed only when a story / feed post was sent.
C27_PublishedOnlyIfAccepted ==
    [][\A pid \in ProductIds, channel \in PlatformKeys :
          (IsPublished(file', pid, channel) /\ ~IsPublished(file, pid, channel)) =>
              /\ op'.pid = pid
              /\ AcceptedChannel(op') = channel]_vars

\* The platforms key the route names for its snapshot.
RouteChannel(request) ==
    CASE request.kind = "confirm_pinterest" -> "pinterest"
      [] request.kind = "publish_instagram" ->
            InstagramPlatform(Lower(DictGet(request.inputs.raw, "target", "feed")))
      [] request.kind = "publish_youtube" -> "youtube"
      [] request.kind = "publish_tiktok" -> "tiktok"
      [] OTHER -> "website"

\* C28: whenever the platform client call of a publish route returns
\* successfully, the persisted state holds status published for that
\* product and platform, for every submitted form including one with an
\* empty sku_or_url.
C28_SuccessIsPersisted ==
    (op.kind \in PublishRoutes /\ op.inputs.client = "published") =>
        IsPublished(file, op.pid, RouteChannel(op))
====
